---- MODULE Spec2Model ----
(***************************************************************************)
(* AeroHub: the manual-block store of App.tsx (handleManualDrop,           *)
(* updateManualFlight, handleTrashDrop and the reciprocal propagation      *)
(* syncReciprocalUpdate) and the connection-window test of                 *)
(* HubBankChart.tsx (checkInWindow, isFlightInConnectionWindow), the       *)
(* chart's derived data (processedHubData, consolidatedData, getSummary,   *)
(* the two-way matcher) and the saved scenarios (createSnapshot,           *)
(* loadSnapshot).                                                          *)
(*                                                                         *)
(* Specifications: Spec (the store), SpecWindow (sliders and hover),       *)
(* SpecChart (derived data over a file and a store), SpecSnapshot (the     *)
(* store with a saved scenario).                                           *)
(*                                                                         *)
(* Representation of the JavaScript values:                                *)
(*   - a time string "HH:mm" is the pair <<H, m>>; the empty or missing    *)
(*     string is <<>> (falsy, no colon);                                   *)
(*   - a flight code is the sequence of its blank-separated words,         *)
(*     "JED NEW 2" is <<"JED", "NEW", "2">>;                               *)
(*   - an id is a positive number, 0 is the missing id; Math.random ids    *)
(*     are drawn from the counter nextId;                                  *)
(*   - a missing airline is "";                                            *)
(*   - the hour bucket NaN (parseInt of an empty hour) is NaNSlot;         *)
(*   - a bucket object of two empty lists reads as no bucket;              *)
(*   - a ratio is the pair <<numerator, denominator>>.                     *)
(***************************************************************************)
EXTENDS Integers, Sequences, FiniteSets, TLC

\* ------------------------------------------------------------------ bounds
\* Ids that Math.random may hand out in one run.
MaxId == 2
\* Records the stores of all hubs may hold together (a block dropped on the
\* other direction's row stays in its old list, so ids do not bound them).
MaxRecords == 2
\* Positions of the MCT slider (0.25 h each) and of the window slider (0.5 h
\* each) that a run visits.
MaxMctSteps == 8
MaxWindowSteps == 12
\* Rows of the file the chart aggregates, and outcomes of Math.random a
\* recomputation of the chart can have.
MaxRows == 4
MaxDraws == 2
\* the records of the store when a scenario is saved, and the handler calls
\* made on the store after that
MaxCapturedRecords == 1
MaxCallsAfterCapture == 2

\* ------------------------------------------------------- program constants
DayMins == 1440
NumSlots == 24
NaNSlot == -1
NoSlot == -2

NoTime == <<>>
T(h, m) == <<h, m>>

\* JavaScript's %: the sign of the result is the sign of the dividend.
JsMod(a, n) == IF a >= 0 THEN a % n ELSE -((-a) % n)

\* App.tsx getMins
getMins(timeStr) ==
  IF timeStr = NoTime THEN 0 ELSE timeStr[1] * 60 + timeStr[2]

\* App.tsx minsToTime
minsToTime(mins) ==
  LET normalized == JsMod(JsMod(mins, DayMins) + DayMins, DayMins)
  IN  T(normalized \div 60, normalized % 60)

\* parseInt(t.split(':')[0])
hourOf(timeStr) == IF timeStr = NoTime THEN NaNSlot ELSE timeStr[1]

\* `${slot.toString().padStart(2, '0')}:00`
slotTime(slot) == T(slot, 0)

\* ----------------------------------------------------------------- strings
Digits == <<"1", "2", "3", "4", "5", "6", "7", "8", "9">>
NumStr(n) == Digits[n]
IsNum(tok) == \E n \in 1..Len(Digits) : Digits[n] = tok
ParseNum(tok) == CHOOSE n \in 1..Len(Digits) : Digits[n] = tok

\* code.split(' ')[0].toUpperCase()
codePort(code) == code[1]
\* code.split(' ').length > 1 ? code.split(' ')[1] : undefined
codeSecond(code) == IF Len(code) > 1 THEN code[2] ELSE ""
\* block.airline || second word of the code
airlineOf(block) ==
  IF block.airline # "" THEN block.airline ELSE codeSecond(block.code)
\* code.toUpperCase().startsWith(hubCode): port codes are three letters and
\* no word used here is a prefix of another, so the prefix test is a test of
\* the first word.
startsWith(code, hubCode) == code[1] = hubCode
\* String.includes on words: no word used here is a proper part of another.
includes(hay, needle) == hay = needle
codeIncludes(code, needle) == \E i \in 1..Len(code) : includes(code[i], needle)

\* ---------------------------------------------------------------- datasets
\* A parsed CSV row; an empty code is a leg the file does not give.
Row(ac, aa, dc, da, t) ==
  [arrivalCode |-> ac, arrivalAirline |-> aa, arrivalFreq |-> 3,
   departureCode |-> dc, departureAirline |-> da, departureFreq |-> 2,
   hub_time |-> t]

\* Two uploaded hubs, BLR and JED; DXB has no dataset, and JED's file has no
\* arrival from BLR.
datasets ==
  << [id |-> "d1", code |-> "BLR",
      data |-> << Row("JED", "SV", "DXB", "EK", T(10, 0)),
                  Row("", "", "JED", "SV", T(23, 30)) >>],
     [id |-> "d2", code |-> "JED",
      data |-> << Row("", "", "BLR", "SV", T(14, 0)) >>] >>

DatasetIds == {datasets[i].id : i \in 1..Len(datasets)}
DatasetOf(id) == datasets[CHOOSE i \in 1..Len(datasets) : datasets[i].id = id]

\* datasets.find(d => d.code === code): index of the first, 0 when none
findDatasetByCode(code) ==
  IF \E i \in 1..Len(datasets) : datasets[i].code = code
  THEN CHOOSE i \in 1..Len(datasets) :
         /\ datasets[i].code = code
         /\ \A j \in 1..(i - 1) : datasets[j].code # code
  ELSE 0

rowCode(row, type) == IF type = "arr" THEN row.arrivalCode ELSE row.departureCode
rowAirline(row, type) ==
  IF type = "arr" THEN row.arrivalAirline ELSE row.departureAirline
rowFreq(row, type) == IF type = "arr" THEN row.arrivalFreq ELSE row.departureFreq

rowMatches(row, type, port, airline) ==
  /\ rowCode(row, type) = port
  /\ (airline = "" \/ includes(rowAirline(row, type), airline))

\* A lookup that falls back to the first row when no row matches.
findRowOrFirst(data, type, port, airline) ==
  IF \E i \in 1..Len(data) : rowMatches(data[i], type, port, airline)
  THEN CHOOSE i \in 1..Len(data) :
         /\ rowMatches(data[i], type, port, airline)
         /\ \A j \in 1..(i - 1) : ~rowMatches(data[j], type, port, airline)
  ELSE 1

\* data.find(row => ...): index of the first matching row, 0 when none
findRow(data, type, port, airline) ==
  IF \E i \in 1..Len(data) : rowMatches(data[i], type, port, airline)
  THEN CHOOSE i \in 1..Len(data) :
         /\ rowMatches(data[i], type, port, airline)
         /\ \A j \in 1..(i - 1) : ~rowMatches(data[j], type, port, airline)
  ELSE 0

\* ------------------------------------------------------------------- store
\* A hub's blocks are a function from the hour buckets that hold a record to
\* their two lists.  A bucket with two empty lists and a missing bucket read
\* the same everywhere (`|| {}`, `|| []`, `if (airportBlocks[slot])`), so the
\* model keeps the one form: only buckets that hold a record are present.
Types == {"arr", "dep"}
Slots == 0..(NumSlots - 1)

EmptySlot == [arrivals |-> <<>>, departures |-> <<>>]
EmptyHub == [b \in {} |-> EmptySlot]

SlotAt(hubBlocks, b) == IF b \in DOMAIN hubBlocks THEN hubBlocks[b] ELSE EmptySlot
SetSlot(hubBlocks, b, slot) ==
  [k \in {j \in DOMAIN hubBlocks \cup {b} : j # b \/ slot # EmptySlot} |->
     IF k = b THEN slot ELSE hubBlocks[k]]

ListOf(slot, type) == IF type = "arr" THEN slot.arrivals ELSE slot.departures
WithList(slot, type, l) ==
  IF type = "arr" THEN [slot EXCEPT !.arrivals = l]
  ELSE [slot EXCEPT !.departures = l]

WithoutId(l, id) == SelectSeq(l, LAMBDA f : f.id # id)
FlightsOf(entries) == [i \in 1..Len(entries) |-> entries[i].flight]
Tagged(l, type) == [i \in 1..Len(l) |-> [type |-> type, flight |-> l[i]]]

\* Object.keys of a hub's blocks: the integer keys ascending, then "NaN"
KeyRank(b) == IF b = NaNSlot THEN NumSlots ELSE b

RECURSIVE FlattenKeys(_, _)
FlattenKeys(hubBlocks, keys) ==
  IF keys = {} THEN <<>>
  ELSE LET k == CHOOSE x \in keys : \A y \in keys : KeyRank(x) <= KeyRank(y)
       IN Tagged(hubBlocks[k].arrivals, "arr")
          \o Tagged(hubBlocks[k].departures, "dep")
          \o FlattenKeys(hubBlocks, keys \ {k})

\* syncReciprocalUpdate, step 3: every manual flight of the target hub
allManualFlights(hubBlocks) == FlattenKeys(hubBlocks, DOMAIN hubBlocks)

\* the reciprocal test of syncReciprocalUpdate (lines 204-207)
isReciprocal(entry, reciprocalType, sourceHubCode, airline) ==
  /\ entry.type = reciprocalType
  /\ startsWith(entry.flight.code, sourceHubCode)
  /\ \/ airline = ""
     \/ entry.flight.airline = airline
     \/ codeIncludes(entry.flight.code, airline)

\* updatedTargetBlocks built by pushing every entry into the bucket of its hour
Rebucket(entries) ==
  [b \in {hourOf(entries[i].flight.exactTime) : i \in 1..Len(entries)} |->
    [arrivals |-> FlightsOf(SelectSeq(entries,
        LAMBDA e : e.type = "arr" /\ hourOf(e.flight.exactTime) = b)),
     departures |-> FlightsOf(SelectSeq(entries,
        LAMBDA e : e.type = "dep" /\ hourOf(e.flight.exactTime) = b))]]

flipType(type) == IF type = "arr" THEN "dep" ELSE "arr"

\* syncReciprocalUpdate, line 219: the anchor a matched record is shifted from
syncAnchor(f) ==
  IF f.originalHubTime # NoTime THEN f.originalHubTime
  ELSE IF f.exactTime # NoTime THEN f.exactTime
  ELSE T(0, 0)

\* syncReciprocalUpdate, lines 188-268: the store after the write to the target
\* hub; newId is the id Math.random would give
syncPropagate(newBlocks, sourceHubCode, focalBlock, type, newId, target) ==
  LET airline == airlineOf(focalBlock)
      targetDataset == datasets[target]
      absoluteDelta ==
        getMins(focalBlock.exactTime) - getMins(focalBlock.originalHubTime)
      reciprocalType == flipType(type)
      all == allManualFlights(newBlocks[targetDataset.id])
      matchingFIDs ==
        {all[i].flight.id : i \in {j \in 1..Len(all) :
            isReciprocal(all[j], reciprocalType, sourceHubCode, airline)}}
      final(e) ==
        IF e.flight.id \in matchingFIDs
        THEN [e EXCEPT !.flight.exactTime =
                minsToTime(getMins(syncAnchor(e.flight)) + absoluteDelta)]
        ELSE e
      matchInCSV ==
        findRow(targetDataset.data, reciprocalType, sourceHubCode, airline)
      anchorTime == targetDataset.data[matchInCSV].hub_time
      syncFlight ==
        [id |-> newId,
         code |-> IF airline # "" THEN <<sourceHubCode, airline, "SYNC">>
                  ELSE <<sourceHubCode, "SYNC">>,
         airline |-> airline,
         freq |-> focalBlock.freq,
         isManual |-> TRUE,
         exactTime |-> minsToTime(getMins(anchorTime) + absoluteDelta),
         originalHubTime |-> anchorTime]
      updatedTargetBlocks ==
        IF matchingFIDs # {}
        THEN Rebucket([i \in 1..Len(all) |-> final(all[i])])
        ELSE IF matchInCSV # 0
        THEN Rebucket(Append(all, [type |-> reciprocalType, flight |-> syncFlight]))
        ELSE Rebucket(all)
  IN [newBlocks EXCEPT ![targetDataset.id] = updatedTargetBlocks]

\* A propagation that loses the whole store when it has nothing to write.
syncOrLose(newBlocks, sourceHubCode, focalBlock, type, newId) ==
  LET target == findDatasetByCode(codePort(focalBlock.code))
  IN IF target = 0 \/ focalBlock.originalHubTime = NoTime
        \/ focalBlock.exactTime = NoTime
     THEN [d \in DOMAIN newBlocks |-> EmptyHub]
     ELSE syncPropagate(newBlocks, sourceHubCode, focalBlock, type, newId, target)

\* App.tsx syncReciprocalUpdate: the two early returns, then the write
syncReciprocalUpdate(newBlocks, sourceHubCode, focalBlock, type, newId) ==
  LET target == findDatasetByCode(codePort(focalBlock.code))
  IN IF target = 0 THEN newBlocks
     ELSE IF focalBlock.originalHubTime = NoTime \/ focalBlock.exactTime = NoTime
     THEN newBlocks
     ELSE syncPropagate(newBlocks, sourceHubCode, focalBlock, type, newId, target)

\* ---------------------------------------------------------------- handlers
\* An anchor that is taken again on every drop, manual block or not.
dropReanchor(active, slotIndex, type, block, fromSlot) ==
  LET autoMatch == findRow(active.data, type, codePort(block.code), airlineOf(block))
  IN IF autoMatch # 0 THEN active.data[autoMatch].hub_time
     ELSE slotTime(IF fromSlot # NoSlot THEN fromSlot ELSE slotIndex)

\* handleManualDrop, lines 277-290: the anchor of the dropped block
dropAnchor(active, slotIndex, type, block, fromSlot) ==
  LET airportCode == codePort(block.code)
      airline == airlineOf(block)
      autoMatch == findRow(active.data, type, airportCode, airline)
  IN IF ~block.isManual
     THEN IF autoMatch # 0 THEN active.data[autoMatch].hub_time
          ELSE slotTime(IF fromSlot # NoSlot THEN fromSlot ELSE slotIndex)
     ELSE block.originalHubTime

\* handleManualDrop, lines 298-299
dropSafeSlot(slotIndex, block) ==
  LET targetHour ==
        IF block.exactTime # NoTime THEN hourOf(block.exactTime) ELSE slotIndex
  IN IF targetHour = NaNSlot THEN slotIndex ELSE targetHour

\* block.code.replace(/ NEW( \d+)?$/, "")
stripNew(code) ==
  LET n == Len(code)
  IN IF n >= 2 /\ code[n] = "NEW" THEN SubSeq(code, 1, n - 1)
     ELSE IF n >= 3 /\ IsNum(code[n]) /\ code[n - 1] = "NEW"
     THEN SubSeq(code, 1, n - 2)
     ELSE code

\* handleManualDrop, lines 303-320: "<base> NEW" or "<base> NEW <k>"
dropFinalCode(existingInSlot, block) ==
  LET base == stripNew(block.code)
      plain == base \o <<"NEW">>
      numbered(c) ==
        /\ Len(c) = Len(base) + 2
        /\ SubSeq(c, 1, Len(base) + 1) = plain
        /\ IsNum(c[Len(c)])
      suffixOf(c) == IF c = plain THEN 1 ELSE ParseNum(c[Len(c)])
      hits == {i \in 1..Len(existingInSlot) :
                 existingInSlot[i].code = plain \/ numbered(existingInSlot[i].code)}
      maxSuffix ==
        CHOOSE m \in {suffixOf(existingInSlot[i].code) : i \in hits} :
          \A i \in hits : suffixOf(existingInSlot[i].code) <= m
  IN IF block.isManual THEN block.code
     ELSE IF hits = {} THEN plain
     ELSE plain \o <<NumStr(maxSuffix + 1)>>

\* handleManualDrop, lines 292-296: the hub's blocks after "Remove from old slot"
dropRemoved(airportBlocks, type, block, fromSlot) ==
  IF block.isManual /\ fromSlot # NoSlot
  THEN SetSlot(airportBlocks, fromSlot,
               WithList(SlotAt(airportBlocks, fromSlot), type,
                        WithoutId(ListOf(SlotAt(airportBlocks, fromSlot), type),
                                  block.id)))
  ELSE airportBlocks

\* A written record that keeps the dragged block's own isManual flag.
dropNewBlockAsDragged(prev, active, slotIndex, type, block, fromSlot, newId) ==
  LET removed == dropRemoved(prev[active.id], type, block, fromSlot)
      safeSlot == dropSafeSlot(slotIndex, block)
  IN [block EXCEPT
        !.id = IF block.id # 0 THEN block.id ELSE newId,
        !.code = dropFinalCode(ListOf(SlotAt(removed, safeSlot), type), block),
        !.exactTime = IF block.exactTime # NoTime THEN block.exactTime
                      ELSE slotTime(safeSlot),
        !.originalHubTime = dropAnchor(active, slotIndex, type, block, fromSlot)]

\* handleManualDrop, lines 322-329: the record written to the store
dropNewBlock(prev, active, slotIndex, type, block, fromSlot, newId) ==
  LET removed == dropRemoved(prev[active.id], type, block, fromSlot)
      safeSlot == dropSafeSlot(slotIndex, block)
  IN [block EXCEPT
        !.id = IF block.id # 0 THEN block.id ELSE newId,
        !.isManual = TRUE,
        !.code = dropFinalCode(ListOf(SlotAt(removed, safeSlot), type), block),
        !.exactTime = IF block.exactTime # NoTime THEN block.exactTime
                      ELSE slotTime(safeSlot),
        !.originalHubTime = dropAnchor(active, slotIndex, type, block, fromSlot)]

\* handleManualDrop: the updater passed to setManualBlocks
handleManualDrop(prev, active, slotIndex, type, block, fromSlot, newId, syncId) ==
  LET removed == dropRemoved(prev[active.id], type, block, fromSlot)
      safeSlot == dropSafeSlot(slotIndex, block)
      newBlock == dropNewBlock(prev, active, slotIndex, type, block, fromSlot, newId)
      airportBlocks ==
        SetSlot(removed, safeSlot,
                WithList(SlotAt(removed, safeSlot), type,
                         Append(ListOf(SlotAt(removed, safeSlot), type), newBlock)))
      newBlocks == [prev EXCEPT ![active.id] = airportBlocks]
  IN syncReciprocalUpdate(newBlocks, active.code, newBlock, type, syncId)

\* updateManualFlight, lines 349-355: "Ensure anchor preservation"
updateFinal(prev, active, slotIndex, type, updatedFlight) ==
  LET l == ListOf(SlotAt(prev[active.id], slotIndex), type)
      found == {i \in 1..Len(l) : l[i].id = updatedFlight.id}
      oldFlight == l[CHOOSE i \in found : \A j \in found : i <= j]
  IN IF updatedFlight.originalHubTime = NoTime /\ found # {}
        /\ oldFlight.originalHubTime # NoTime
     THEN [updatedFlight EXCEPT !.originalHubTime = oldFlight.originalHubTime]
     ELSE updatedFlight

\* updateManualFlight, lines 357-361
updateTargetSlot(slotIndex, finalUpdated) ==
  IF finalUpdated.exactTime # NoTime /\ hourOf(finalUpdated.exactTime) \in Slots
  THEN hourOf(finalUpdated.exactTime)
  ELSE slotIndex

\* updateManualFlight: the updater passed to setManualBlocks
updateManualFlight(prev, active, slotIndex, type, updatedFlight, syncId) ==
  LET finalUpdated == updateFinal(prev, active, slotIndex, type, updatedFlight)
      targetSlot == updateTargetSlot(slotIndex, finalUpdated)
      removed ==
        SetSlot(prev[active.id], slotIndex,
                WithList(SlotAt(prev[active.id], slotIndex), type,
                         WithoutId(ListOf(SlotAt(prev[active.id], slotIndex), type),
                                   finalUpdated.id)))
      airportBlocks ==
        SetSlot(removed, targetSlot,
                WithList(SlotAt(removed, targetSlot), type,
                         Append(ListOf(SlotAt(removed, targetSlot), type),
                                finalUpdated)))
      newBlocks == [prev EXCEPT ![active.id] = airportBlocks]
  IN syncReciprocalUpdate(newBlocks, active.code, finalUpdated, type, syncId)

\* A delete that also drops what the other hubs hold.
handleTrashDropEverywhere(prev, active, blockId, fromSlot, type) ==
  [d \in DOMAIN prev |->
     IF d = active.id
     THEN SetSlot(prev[d], fromSlot,
                  WithList(SlotAt(prev[d], fromSlot), type,
                           WithoutId(ListOf(SlotAt(prev[d], fromSlot), type),
                                     blockId)))
     ELSE EmptyHub]

\* handleTrashDrop: the updater passed to setManualBlocks
handleTrashDrop(prev, active, blockId, fromSlot, type) ==
  [prev EXCEPT ![active.id] =
     SetSlot(@, fromSlot,
             WithList(SlotAt(@, fromSlot), type,
                      WithoutId(ListOf(SlotAt(@, fromSlot), type), blockId)))]

\* ------------------------------------------------------- connection window
\* App.tsx line 47: highlightConnections is never set after useState(true)
highlightConnections == TRUE

\* HubBankChart.tsx getMinutes
getMinutes(slotIndex, exactTime) ==
  IF exactTime # NoTime THEN exactTime[1] * 60 + exactTime[2] ELSE slotIndex * 60

\* A window test that does not wrap at midnight.
checkInWindowNoWrap(val, start, duration) ==
  LET relativeVal == val - start
  IN relativeVal >= 0 /\ relativeVal <= duration

\* isFlightInConnectionWindow, lines 1842-1845
\* A window that leaves out its last minute.
checkInWindowOpenEnd(val, start, duration) ==
  LET relativeVal == JsMod(val - start + DayMins, DayMins)
  IN relativeVal >= 0 /\ relativeVal < duration

checkInWindow(val, start, duration) ==
  LET relativeVal == JsMod(val - start + DayMins, DayMins)
  IN relativeVal >= 0 /\ relativeVal <= duration

\* A window that opens at the arrival itself.
validStartNoMct(sourceMins, mctMins) == JsMod(sourceMins, DayMins)

\* line 1852: the first departure an arrival can connect to
validStartArr(sourceMins, mctMins) == JsMod(sourceMins + mctMins, DayMins)

\* A window that closes at the departure itself.
validEndNoMct(sourceMins, mctMins) == JsMod(sourceMins + DayMins, DayMins)

\* line 1856: the last arrival that can connect to a departure
validEndDep(sourceMins, mctMins) == JsMod(sourceMins - mctMins + DayMins, DayMins)

\* line 1857: the first arrival that can connect to a departure
validStartDep(validEnd, windowMins) == JsMod(validEnd - windowMins + DayMins, DayMins)

\* (f as any).mergedFlights || [f]
flightsOf(f) ==
  IF "mergedFlights" \in DOMAIN f /\ f.mergedFlights # <<>>
  THEN f.mergedFlights ELSE <<f>>

\* HubBankChart.tsx isFlightInConnectionWindow; mctMins and windowMins are
\* Math.round(mct * 60) and Math.round(maxConnectionWindow * 60)
isFlightInConnectionWindow(sourceFlight, sourceSlotIndex, sourceType, targetFlight, targetSlotIndex, targetType, mctMins, windowMins) ==
  LET sourceFlights == flightsOf(sourceFlight)
      targetFlights == flightsOf(targetFlight)
      pair(sf, tf) ==
        LET sourceMins == getMinutes(sourceSlotIndex, sf.exactTime)
            targetMins == getMinutes(targetSlotIndex, tf.exactTime)
        IN IF sourceType = "arr" /\ targetType = "dep"
           THEN checkInWindow(targetMins, validStartArr(sourceMins, mctMins),
                              windowMins)
           ELSE IF sourceType = "dep" /\ targetType = "arr"
           THEN checkInWindow(targetMins,
                              validStartDep(validEndDep(sourceMins, mctMins),
                                            windowMins),
                              windowMins)
           ELSE FALSE
  IN IF ~highlightConnections THEN FALSE
     ELSE \E i \in 1..Len(sourceFlights) :
            \E j \in 1..Len(targetFlights) :
              pair(sourceFlights[i], targetFlights[j])

\* ------------------------------------------------------------------- state
VARIABLES
  manualBlocks,         \* useState manualBlocks: dataset id -> bucket -> lists
  activeAirportId,      \* useState activeAirportId
  nextId,               \* the next id Math.random hands out
  persisted,            \* localStorage[STORAGE_KEY_BLOCKS], parsed
  mct,                  \* useState mct, in slider steps of 0.25 h
  maxConnectionWindow,  \* useState maxConnectionWindow, in slider steps of 0.5 h
  hoveredManualFlight,  \* useState hoveredManualFlight with the flight it names
  connected,            \* the chart flights the render rings as connections
  chartRows,            \* the rows of the file the chart aggregates
  idDraw,               \* what Math.random gave the latest recomputation
  selectedRef,          \* a SelectionRef of selectedRefs: slot, type, flightId
  snapshot,             \* useState snapshots: the scenario saved, read as it is now
  captured              \* the store and parameters as createSnapshot read them

storeVars == <<manualBlocks, activeAirportId, nextId, persisted>>
windowVars == <<mct, maxConnectionWindow, hoveredManualFlight, connected>>
chartVars == <<chartRows, idDraw, selectedRef>>
snapVars == <<snapshot, captured>>
vars == <<manualBlocks, activeAirportId, nextId, persisted,
          mct, maxConnectionWindow, hoveredManualFlight, connected,
          chartRows, idDraw, selectedRef, snapshot, captured>>

\* ------------------------------------------------------------------ inputs
\* Times typed into the <input type="time"> of the drop and edit dialogs.
UserTimes == {T(10, 45)}
\* Codes typed into the "IATA Code" field of the edit dialog.
UserCodes == {<<"BLR", "SV">>}
\* Slots of the chart a block is dropped on.
DropSlots == {0}

\* App.tsx line 565/567: the payload of the "+ Arr Block" / "+ Dep Block" drag
toolbarBlock ==
  [id |-> 0, code |-> <<"NEW">>, airline |-> "", freq |-> 1, isManual |-> TRUE,
   exactTime |-> NoTime, originalHubTime |-> NoTime]

\* processedHubData: the automatic flight shown for a row and a direction
autoFlight(row, type, id) ==
  [id |-> id, code |-> <<rowCode(row, type)>>, airline |-> rowAirline(row, type),
   freq |-> rowFreq(row, type), isManual |-> FALSE,
   exactTime |-> row.hub_time, originalHubTime |-> NoTime]

\* activeDataset (lines 59-61)
activeDataset ==
  IF activeAirportId \in DatasetIds THEN DatasetOf(activeAirportId) ELSE datasets[1]

\* processedHubData: the manual records the chart shows are those of slots 0..23
ShownSlots == DOMAIN manualBlocks[activeDataset.id] \cap Slots
ShownList(b, type) == ListOf(manualBlocks[activeDataset.id][b], type)

HubFlights(hubBlocks) ==
  LET all == allManualFlights(hubBlocks) IN {all[i].flight : i \in 1..Len(all)}
RecordCount(blocks) ==
  LET n(d) == Len(allManualFlights(blocks[d]))
      RECURSIVE Sum(_)
      Sum(S) == IF S = {} THEN 0
                ELSE LET d == CHOOSE x \in S : TRUE IN n(d) + Sum(S \ {d})
  IN Sum(DatasetIds)
IdsIn(blocks) == UNION {{f.id : f \in HubFlights(blocks[d])} : d \in DatasetIds}
SetMax(S) == CHOOSE m \in S : \A x \in S : x <= m
\* Math.random().toString(36).substr(2, 9): the ids of a run are 1, 2, ... in
\* the order they are drawn; a call draws nextId and then laterId
laterId == nextId + 1
IdAfter(ids) ==
  IF ids = {} \/ SetMax(ids) < nextId THEN nextId ELSE SetMax(ids) + 1

\* HubBankChart handleDrop + the "Confirm Entry" dialog: the block as dropped,
\* its time preset to the slot's hour and then possibly retyped or cleared
DropTimes(slotIndex) == UserTimes \cup {slotTime(slotIndex), NoTime}
MoveTimes(slotIndex) == {slotTime(slotIndex), NoTime}

\* One call of onManualDrop or onUpdateManualFlight with its arguments and the
\* ids Math.random gives during it.
DropOp(slotIndex, type, block, fromSlot, newId, syncId) ==
  [kind |-> "drop", slotIndex |-> slotIndex, type |-> type, block |-> block,
   fromSlot |-> fromSlot, newId |-> newId, syncId |-> syncId]
UpdateOp(slotIndex, type, updatedFlight, syncId) ==
  [kind |-> "update", slotIndex |-> slotIndex, type |-> type,
   block |-> updatedFlight, fromSlot |-> NoSlot, newId |-> 0, syncId |-> syncId]

\* a new block dragged from the toolbar to a slot
ToolbarDrops ==
  UNION {{DropOp(s, type, [toolbarBlock EXCEPT !.exactTime = t], NoSlot,
                 nextId, laterId) :
            type \in Types, t \in DropTimes(s)} : s \in DropSlots}

\* an automatic flight of the chart dragged to a slot of its row (promotion)
AutoDrops ==
  UNION {{DropOp(s, type,
                 [autoFlight(activeDataset.data[r], type, nextId)
                    EXCEPT !.exactTime = t],
                 hourOf(activeDataset.data[r].hub_time), nextId, laterId) :
            r \in {i \in 1..Len(activeDataset.data) :
                     rowCode(activeDataset.data[i], type) # ""},
            t \in DropTimes(s)} : s \in DropSlots, type \in Types}

\* a manual flight of the chart dragged to a slot of either row (move)
ManualDrops ==
  UNION {{DropOp(s, type, [ShownList(b, srcType)[i] EXCEPT !.exactTime = t], b,
                 nextId, nextId) :
            i \in 1..Len(ShownList(b, srcType)), t \in MoveTimes(s)} :
         b \in ShownSlots, srcType \in Types, s \in DropSlots, type \in Types}

\* handleFlightDoubleClick: the time the edit dialog opens with
shownTime(b, f) == IF f.exactTime # NoTime THEN f.exactTime ELSE slotTime(b)

\* the "Save Optimization" dialog on one manual flight: time and code retyped
EditsOf(b, type, f) ==
  {UpdateOp(b, type, [f EXCEPT !.exactTime = t, !.code = c], nextId) :
     t \in UserTimes \cup {NoTime, shownTime(b, f)},
     c \in UserCodes \cup {f.code}}

Edits ==
  UNION {UNION {EditsOf(b, type, ShownList(b, type)[i]) :
                  i \in 1..Len(ShownList(b, type))} :
         b \in ShownSlots, type \in Types}

\* the written record and the new store of one call
Focal(op) ==
  IF op.kind = "drop"
  THEN dropNewBlock(manualBlocks, activeDataset, op.slotIndex, op.type, op.block,
                    op.fromSlot, op.newId)
  ELSE updateFinal(manualBlocks, activeDataset, op.slotIndex, op.type, op.block)
Result(op) ==
  IF op.kind = "drop"
  THEN handleManualDrop(manualBlocks, activeDataset, op.slotIndex, op.type,
                        op.block, op.fromSlot, op.newId, op.syncId)
  ELSE updateManualFlight(manualBlocks, activeDataset, op.slotIndex, op.type,
                          op.block, op.syncId)

\* handleManualDrop, lines 292-334: the store when syncReciprocalUpdate is
\* called, the edited hub's buckets written and no other hub touched
dropLocalBlocks(prev, active, slotIndex, type, block, fromSlot, newId) ==
  LET removed == dropRemoved(prev[active.id], type, block, fromSlot)
      safeSlot == dropSafeSlot(slotIndex, block)
      newBlock == dropNewBlock(prev, active, slotIndex, type, block, fromSlot, newId)
  IN [prev EXCEPT ![active.id] =
        SetSlot(removed, safeSlot,
                WithList(SlotAt(removed, safeSlot), type,
                         Append(ListOf(SlotAt(removed, safeSlot), type), newBlock)))]

\* updateManualFlight, lines 363-372: the same for an update
updateLocalBlocks(prev, active, slotIndex, type, updatedFlight) ==
  LET finalUpdated == updateFinal(prev, active, slotIndex, type, updatedFlight)
      targetSlot == updateTargetSlot(slotIndex, finalUpdated)
      removed ==
        SetSlot(prev[active.id], slotIndex,
                WithList(SlotAt(prev[active.id], slotIndex), type,
                         WithoutId(ListOf(SlotAt(prev[active.id], slotIndex), type),
                                   finalUpdated.id)))
  IN [prev EXCEPT ![active.id] =
        SetSlot(removed, targetSlot,
                WithList(SlotAt(removed, targetSlot), type,
                         Append(ListOf(SlotAt(removed, targetSlot), type),
                                finalUpdated)))]

\* syncReciprocalUpdate, lines 213 and 268: the hubs whose buckets the call
\* replaces by buckets built anew
syncRebuilt(focalBlock) ==
  LET target == findDatasetByCode(codePort(focalBlock.code))
  IN IF target = 0 \/ focalBlock.originalHubTime = NoTime
        \/ focalBlock.exactTime = NoTime
     THEN {}
     ELSE {datasets[target].id}

\* The handlers copy the store and the edited hub ({...prev}, lines 274-275,
\* 346-347, 384-385) but not the hub's buckets: a bucket object the saved
\* scenario holds too (snap.shared) is written in place, so the scenario reads
\* what the handler wrote to it; a hub rebuilt by the propagation has new
\* bucket objects from then on. A bucket of two empty lists reads as no bucket,
\* here as in the store.
seenThrough(snap, local, rebuilt) ==
  LET read(d, b) ==
        IF <<d, b>> \in snap.shared THEN SlotAt(local[d], b)
        ELSE snap.manualBlocks[d][b]
      keys(d) == DOMAIN snap.manualBlocks[d] \cup {p[2] : p \in {q \in snap.shared : q[1] = d}}
  IN IF ~snap.taken THEN snap
     ELSE [snap EXCEPT
             !.manualBlocks =
                [d \in DOMAIN snap.manualBlocks |->
                   [b \in {k \in keys(d) : read(d, k) # EmptySlot} |-> read(d, b)]],
             !.shared = {p \in snap.shared : p[1] \notin rebuilt},
             !.calls = @ + 1]

SeenAfter(op) ==
  IF op.kind = "drop"
  THEN seenThrough(snapshot,
                   dropLocalBlocks(manualBlocks, activeDataset, op.slotIndex,
                                   op.type, op.block, op.fromSlot, op.newId),
                   syncRebuilt(Focal(op)))
  ELSE seenThrough(snapshot,
                   updateLocalBlocks(manualBlocks, activeDataset, op.slotIndex,
                                     op.type, op.block),
                   syncRebuilt(Focal(op)))

\* a manual flight of the chart dragged to the trash
Trashes ==
  UNION {{[blockId |-> ShownList(b, type)[i].id, fromSlot |-> b, type |-> type] :
            i \in 1..Len(ShownList(b, type))} : b \in ShownSlots, type \in Types}
TrashResult(tr) ==
  handleTrashDrop(manualBlocks, activeDataset, tr.blockId, tr.fromSlot, tr.type)
SeenAfterTrash(tr) == seenThrough(snapshot, TrashResult(tr), {})

\* ------------------------------------------------------- chart and sliders
\* App.tsx lines 573 and 577: the ranges of the two sliders, in steps
MctSliderMax == 24
WindowSliderMin == 2
WindowSliderMax == 24

\* Math.round(mct * 60) and Math.round(maxConnectionWindow * 60)
mctMinsOf(m) == (m * 60) \div 4
windowMinsOf(w) == (w * 60) \div 2

ChartFlight(type, slotIndex, exactTime) ==
  [type |-> type, slotIndex |-> slotIndex,
   flight |-> [exactTime |-> exactTime, mergedFlights |-> <<>>]]

\* The flights of the chart the pointer can rest on: hours, window edges and
\* their neighbours, both sides of midnight, and one flight with no time.
ChartTimes ==
  {T(8, 0), T(9, 0), T(9, 29), T(9, 30), T(10, 0), T(15, 30), T(15, 31),
   T(22, 0), T(23, 30), T(0, 15), T(0, 45), T(1, 1)}
ChartFlights ==
  {ChartFlight(type, t[1], t) : type \in Types, t \in ChartTimes}
    \cup {ChartFlight(type, 5, NoTime) : type \in Types}

NoHover == [type |-> "none", slotIndex |-> 0,
            flight |-> [exactTime |-> NoTime, mergedFlights |-> <<>>]]
\* no flight selected
NoRef == [type |-> "none", slotIndex |-> 0, flightId |-> 0]
\* no scenario saved
NoSnapshot ==
  [taken |-> FALSE, manualBlocks |-> [d \in DatasetIds |-> EmptyHub],
   mct |-> 0, maxConnectionWindow |-> 0, shared |-> {}, calls |-> 0]

\* getCellClasses, lines 2098-2112: the flights ringed while h is hovered
Ringed(m, w, h) ==
  IF h = NoHover THEN {}
  ELSE {t \in ChartFlights :
          isFlightInConnectionWindow(h.flight, h.slotIndex, h.type,
                                     t.flight, t.slotIndex, t.type,
                                     mctMinsOf(m), windowMinsOf(w))}

\* ------------------------------------------------------------------ actions
Init ==
  /\ manualBlocks = [d \in DatasetIds |-> EmptyHub]
  /\ activeAirportId = datasets[1].id
  /\ nextId = 1
  /\ persisted = [d \in DatasetIds |-> EmptyHub]
  /\ mct = 6
  /\ maxConnectionWindow = 12
  /\ hoveredManualFlight = NoHover
  /\ connected = {}
  /\ chartRows = <<>>
  /\ idDraw = 1
  /\ selectedRef = NoRef
  /\ snapshot = NoSnapshot
  /\ captured = NoSnapshot

\* A store that writes out only the first hub's blocks.
persistFirstHub(blocks) ==
  [d \in DOMAIN blocks |-> IF d = datasets[1].id THEN blocks[d] ELSE EmptyHub]

\* useEffect([manualBlocks]) (lines 96-98): what localStorage holds once the
\* effect of a render has run
persistBlocks(blocks) == blocks

\* setManualBlocks(updater), the render and its effect: the updater runs once
\* on the current store, the result becomes the store, and the effect of that
\* render writes it out before the next event is handled.
Commit(res, seen) ==
  \E r \in {res} :
    \E ids \in {IdsIn(r)} :
      /\ \A i \in ids : i <= MaxId
      /\ RecordCount(r) <= MaxRecords
      /\ seen.calls <= MaxCallsAfterCapture
      /\ manualBlocks' = r
      /\ persisted' = persistBlocks(r)
      /\ nextId' = IdAfter(ids)
      /\ snapshot' = seen
      /\ UNCHANGED captured
      /\ UNCHANGED activeAirportId
      /\ UNCHANGED windowVars
      /\ UNCHANGED chartVars

DropToolbar == \E op \in ToolbarDrops : Commit(Result(op), SeenAfter(op))
DropAuto == \E op \in AutoDrops : Commit(Result(op), SeenAfter(op))
DropManual == \E op \in ManualDrops : Commit(Result(op), SeenAfter(op))
EditManual == \E op \in Edits : Commit(Result(op), SeenAfter(op))
TrashManual == \E tr \in Trashes : Commit(TrashResult(tr), SeenAfterTrash(tr))

\* the airport tabs: setActiveAirportId
SelectAirport ==
  /\ \E d \in DatasetIds \ {activeAirportId} : activeAirportId' = d
  /\ UNCHANGED <<manualBlocks, nextId, persisted>>
  /\ UNCHANGED windowVars
  /\ UNCHANGED chartVars
  /\ UNCHANGED snapVars

Next ==
  \/ DropToolbar
  \/ DropAuto
  \/ DropManual
  \/ EditManual
  \/ TrashManual
  \/ SelectAirport

Spec == Init /\ [][Next]_vars

\* the render after a change of a slider or of the hovered flight
Render(m, w, h) ==
  /\ mct' = m
  /\ maxConnectionWindow' = w
  /\ hoveredManualFlight' = h
  /\ connected' = Ringed(m, w, h)
  /\ UNCHANGED storeVars
  /\ UNCHANGED chartVars
  /\ UNCHANGED snapVars

\* the MCT slider: setMct(parseFloat(e.target.value))
SetMct ==
  \E m \in 0..MaxMctSteps :
    /\ m <= MctSliderMax
    /\ m # mct
    /\ Render(m, maxConnectionWindow, hoveredManualFlight)

\* the window slider: setMaxConnectionWindow(parseFloat(e.target.value))
SetMaxConnectionWindow ==
  \E w \in WindowSliderMin..MaxWindowSteps :
    /\ w <= WindowSliderMax
    /\ w # maxConnectionWindow
    /\ Render(mct, w, hoveredManualFlight)

\* onMouseEnter of a flight of the chart
HoverFlight ==
  \E h \in ChartFlights :
    /\ h # hoveredManualFlight
    /\ Render(mct, maxConnectionWindow, h)

\* onMouseLeave
LeaveFlight ==
  /\ hoveredManualFlight # NoHover
  /\ Render(mct, maxConnectionWindow, NoHover)

NextWindow ==
  \/ SetMct
  \/ SetMaxConnectionWindow
  \/ HoverFlight
  \/ LeaveFlight

SpecWindow == Init /\ [][NextWindow]_vars

\* ------------------------------------------------------------- scenarios
\* the bucket objects of a store
BucketsOf(blocks) ==
  UNION {{<<d, b>> : b \in DOMAIN blocks[d]} : d \in DOMAIN blocks}

\* createSnapshot, lines 122-137: the scenario holds the store object itself
CreateSnapshot ==
  /\ ~snapshot.taken
  /\ RecordCount(manualBlocks) <= MaxCapturedRecords
  /\ snapshot' = [taken |-> TRUE, manualBlocks |-> manualBlocks, mct |-> mct,
                  maxConnectionWindow |-> maxConnectionWindow,
                  shared |-> BucketsOf(manualBlocks), calls |-> 0]
  /\ captured' = snapshot'
  /\ UNCHANGED storeVars
  /\ UNCHANGED windowVars
  /\ UNCHANGED chartVars

\* loadSnapshot, lines 139-146, the render and its effects: the scenario's
\* store object becomes the store, so every bucket of it is shared again
LoadSnapshot ==
  /\ snapshot.taken
  /\ manualBlocks' = snapshot.manualBlocks
  /\ persisted' = persistBlocks(snapshot.manualBlocks)
  /\ mct' = snapshot.mct
  /\ maxConnectionWindow' = snapshot.maxConnectionWindow
  /\ connected' = Ringed(snapshot.mct, snapshot.maxConnectionWindow,
                         hoveredManualFlight)
  /\ snapshot' = [snapshot EXCEPT
                    !.shared = @ \cup BucketsOf(snapshot.manualBlocks)]
  /\ UNCHANGED <<activeAirportId, nextId, hoveredManualFlight, captured>>
  /\ UNCHANGED chartVars

NextSnapshot ==
  \/ DropToolbar
  \/ DropAuto
  \/ DropManual
  \/ EditManual
  \/ TrashManual
  \/ CreateSnapshot
  \/ LoadSnapshot

SpecSnapshot == Init /\ [][NextSnapshot]_vars

\* ------------------------------------------------------------------- chart
\* A parsed CSV row that gives one leg: the flight number, seats and pax of
\* the leg besides its code, airline and frequency.
Leg(type, code, airline, flightNo, freq, seats, pax, t) ==
  LET a == type = "arr"
      d == type = "dep"
  IN [arrivalCode |-> IF a THEN code ELSE "",
      arrivalAirline |-> IF a THEN airline ELSE "",
      arrivalFlightNo |-> IF a THEN flightNo ELSE "",
      arrivalFreq |-> IF a THEN freq ELSE 0,
      arrivalSeats |-> IF a THEN seats ELSE 0,
      arrivalPax |-> IF a THEN pax ELSE 0,
      departureCode |-> IF d THEN code ELSE "",
      departureAirline |-> IF d THEN airline ELSE "",
      departureFlightNo |-> IF d THEN flightNo ELSE "",
      departureFreq |-> IF d THEN freq ELSE 0,
      departureSeats |-> IF d THEN seats ELSE 0,
      departurePax |-> IF d THEN pax ELSE 0,
      hub_time |-> t]

rowFlightNo(row, type) ==
  IF type = "arr" THEN row.arrivalFlightNo ELSE row.departureFlightNo
rowSeats(row, type) == IF type = "arr" THEN row.arrivalSeats ELSE row.departureSeats
rowPax(row, type) == IF type = "arr" THEN row.arrivalPax ELSE row.departurePax

\* constants.tsx: the members of BLR_CATCHMENT and INDIAN_AIRPORTS among the
\* ports of the rows below
BLR_CATCHMENT == {"MAA", "BLR"}
INDIAN_AIRPORTS == {"BLR", "DEL", "MAA"}
\* Set.has(code) on the whole code string
hasCode(set, code) == Len(code) = 1 /\ code[1] \in set

\* constants.tsx AIRPORT_REGIONS[code] || Region.Unknown, for the ports of the
\* files used here
AIRPORT_REGIONS(code) ==
  IF code \in {"BLR", "DEL", "MAA"} THEN "Asia/Pacific"
  ELSE IF code \in {"JED", "DXB"} THEN "Middle East"
  ELSE "Unknown"
\* targetFlight.region as a key of stats: a flight without the field counts
\* under the key "undefined"
regionOf(f) == IF "region" \in DOMAIN f THEN f.region ELSE "undefined"

Categories == {"catchment", "otherIndian", "international"}
\* Categories tested one by one, a catchment port of India in two of them.
inCategoryEachTested(cat, code) ==
  IF cat = "catchment" THEN hasCode(BLR_CATCHMENT, code)
  ELSE IF cat = "otherIndian" THEN hasCode(INDIAN_AIRPORTS, code)
  ELSE ~hasCode(BLR_CATCHMENT, code) /\ ~hasCode(INDIAN_AIRPORTS, code)
\* getSummary, lines 1922-1937: if (isCatchment) ... else if (isIndian) ...
\* else ...
inCategory(cat, code) ==
  IF cat = "catchment" THEN hasCode(BLR_CATCHMENT, code)
  ELSE IF cat = "otherIndian"
  THEN ~hasCode(BLR_CATCHMENT, code) /\ hasCode(INDIAN_AIRPORTS, code)
  ELSE ~hasCode(BLR_CATCHMENT, code) /\ ~hasCode(INDIAN_AIRPORTS, code)

SeqSum(nums) ==
  LET RECURSIVE Go(_)
      Go(i) == IF i = 0 THEN 0 ELSE nums[i] + Go(i - 1)
  IN Go(Len(nums))

\* the members of a set of indices, ascending
Ascending(S) ==
  LET RECURSIVE Go(_)
      Go(R) == IF R = {} THEN <<>>
               ELSE LET m == CHOOSE x \in R : \A y \in R : x <= y
                    IN <<m>> \o Go(R \ {m})
  IN Go(S)

\* f.seats || 0, f.pax || 0
seatsOf(f) == IF "seats" \in DOMAIN f THEN f.seats ELSE 0
paxOf(f) == IF "pax" \in DOMAIN f THEN f.pax ELSE 0

\* Math.random().toString(36) in processedHubData and `merged-${code}-${
\* Math.random()}` in groupByType: the ids one recomputation hands out, as
\* numbers apart from the ids of manual records
autoId(draw, idx, type, k) ==
  draw * 10000 + idx * 100 + (IF type = "arr" THEN 0 ELSE 50) + k
mergedId(draw, idx, type, k) == autoId(draw, idx, type, k) + 5000

\* processedHubData, lines 403-419: the legs the chart counts, with the region,
\* airline and market filters as useState leaves them
countedLeg(row, type) ==
  /\ row.hub_time # NoTime
  /\ hourOf(row.hub_time) \in Slots
  /\ rowCode(row, type) # ""
  /\ rowAirline(row, type) # ""

\* line 420: `${code}-${row.hub_time}-${flightNo || 'XX'}`
aggregationKey(row, type) ==
  <<rowCode(row, type), row.hub_time,
    IF rowFlightNo(row, type) = "" THEN "XX" ELSE rowFlightNo(row, type)>>

\* lines 420-427 and mapEntries: the automatic flights of one slot and
\* direction, one per key in the order the keys first occur
mapEntries(rows, idx, type, draw) ==
  LET rs == SelectSeq(rows, LAMBDA row :
              countedLeg(row, type) /\ hourOf(row.hub_time) = idx)
      same(i) == SelectSeq(rs, LAMBDA row :
                   aggregationKey(row, type) = aggregationKey(rs[i], type))
      firsts == Ascending({i \in 1..Len(rs) :
                  \A j \in 1..(i - 1) :
                    aggregationKey(rs[j], type) # aggregationKey(rs[i], type)})
  IN [k \in 1..Len(firsts) |->
       LET i == firsts[k]
           g == same(i)
       IN [code |-> <<rowCode(rs[i], type)>>,
           freq |-> SeqSum([n \in 1..Len(g) |-> rowFreq(g[n], type)]),
           seats |-> SeqSum([n \in 1..Len(g) |-> rowSeats(g[n], type)]),
           pax |-> SeqSum([n \in 1..Len(g) |-> rowPax(g[n], type)]),
           airline |-> rowAirline(rs[i], type),
           flightNo |-> rowFlightNo(rs[i], type),
           region |-> AIRPORT_REGIONS(rowCode(rs[i], type)),
           exactTime |-> rs[i].hub_time,
           id |-> autoId(draw, idx, type, k),
           isManual |-> FALSE]]

\* App.tsx processedHubData: the 24 slots, the automatic flights of each
\* followed by the manual records of its bucket
processedHubData(rows, hubBlocks, draw) ==
  [idx \in Slots |->
    [arrivals |-> mapEntries(rows, idx, "arr", draw)
                    \o SlotAt(hubBlocks, idx).arrivals,
     departures |-> mapEntries(rows, idx, "dep", draw)
                    \o SlotAt(hubBlocks, idx).departures]]

\* A merged block that sums the frequency only, as the first revision of the
\* chart did.
mergeGroupFreqOnly(group, id) ==
  ("id" :> id
   @@ "freq" :> SeqSum([n \in 1..Len(group) |-> group[n].freq])
   @@ "isMerged" :> TRUE
   @@ "mergedFlights" :> group
   @@ group[1])

\* lines 1717-1726: the merged block of a group of two or more flights
mergeGroup(group, id) ==
  ("id" :> id
   @@ "freq" :> SeqSum([n \in 1..Len(group) |-> group[n].freq])
   @@ "seats" :> SeqSum([n \in 1..Len(group) |-> seatsOf(group[n])])
   @@ "pax" :> SeqSum([n \in 1..Len(group) |-> paxOf(group[n])])
   @@ "isMerged" :> TRUE
   @@ "mergedFlights" :> group
   @@ group[1])

\* a code that is an array index as a property key (digits only)
codeIsIndex(code) == Len(code) = 1 /\ IsNum(code[1])
RECURSIVE ByIndexValue(_, _)
ByIndexValue(flights, S) ==
  IF S = {} THEN <<>>
  ELSE LET i == CHOOSE x \in S : \A y \in S :
                  ParseNum(flights[x].code[1]) <= ParseNum(flights[y].code[1])
       IN <<i>> \o ByIndexValue(flights, S \ {i})
\* Object.values(autoGroups), line 1715: the keys in the order they were
\* inserted, which is the order the codes first occur, but for index keys,
\* which come first and ascending
objectValuesOrder(flights) ==
  LET first == {i \in 1..Len(flights) :
                  \A j \in 1..(i - 1) : flights[j].code # flights[i].code}
  IN ByIndexValue(flights, {i \in first : codeIsIndex(flights[i].code)})
       \o Ascending({i \in first : ~codeIsIndex(flights[i].code)})

\* the blocks of the groups of a list, one group per code in the order of
\* Object.values
groupBlocks(flights, draw, idx, type) ==
  LET firsts == objectValuesOrder(flights)
  IN [k \in 1..Len(firsts) |->
       LET group == SelectSeq(flights, LAMBDA f : f.code = flights[firsts[k]].code)
       IN IF Len(group) = 1 THEN group[1]
          ELSE mergeGroup(group, mergedId(draw, idx, type, k))]

\* A grouping that does not set manual flights apart.
groupByTypeAll(flights, draw, idx, type) == groupBlocks(flights, draw, idx, type)

\* A grouping that lists the manual flights first.
groupByTypeManualFirst(flights, draw, idx, type) ==
  LET manualOnes == SelectSeq(flights, LAMBDA f : f.isManual)
      autoOnes == SelectSeq(flights, LAMBDA f : ~f.isManual)
  IN manualOnes \o groupBlocks(autoOnes, draw, idx, type)

\* HubBankChart.tsx groupByType (lines 1705-1730)
groupByType(flights, draw, idx, type) ==
  LET manualOnes == SelectSeq(flights, LAMBDA f : f.isManual)
      autoOnes == SelectSeq(flights, LAMBDA f : ~f.isManual)
  IN groupBlocks(autoOnes, draw, idx, type) \o manualOnes

\* HubBankChart.tsx consolidatedData (lines 1703-1737)
consolidate(data, draw) ==
  [idx \in DOMAIN data |->
    [arrivals |-> groupByType(data[idx].arrivals, draw, idx, "arr"),
     departures |-> groupByType(data[idx].departures, draw, idx, "dep")]]

\* the two memoised structures of the current render
hubSlots == processedHubData(chartRows, manualBlocks[activeDataset.id], idDraw)
consolidatedData == consolidate(hubSlots, idDraw)

\* sourceFlights.find(...): the index of the flight a reference names in the
\* list of its slot and type, 0 when there is none
findSource(cd, source) ==
  LET l == ListOf(cd[source.slotIndex], source.type)
      named(i) == IF source.flightId # 0 THEN l[i].id = source.flightId
                  ELSE l[i].code = <<"BLR">> \/ l[i].isManual
      hits == {i \in 1..Len(l) : named(i)}
  IN IF hits # {} THEN CHOOSE i \in hits : \A j \in hits : i <= j
     ELSE IF source.flightId = 0 /\ Len(l) > 0 THEN 1
     ELSE 0

\* formatMins, lines 1753-1757: Math.floor(m / 60) % 24 and m % 60
formatMins(m) == T(JsMod(m \div 60, NumSlots), JsMod(m, 60))

\* a / b of JavaScript numbers, kept as the fraction: 0 / 0 is NaN and any
\* other a / 0 an infinity
Ratio(a, b) == <<a, b>>
Number(n) == <<n, 1>>

\* An international share that divides whatever the total is.
efficiencyUnguarded(internationalFreq, totalFreq) ==
  Ratio(internationalFreq * 100, totalFreq)

\* line 1978: totalFreq > 0 ? (internationalFreq / totalFreq) * 100 : 0
efficiencyIndex(internationalFreq, totalFreq) ==
  IF totalFreq > 0 THEN Ratio(internationalFreq * 100, totalFreq) ELSE Number(0)

\* lines 1891-1896: the summary of a reference that names no flight
emptySummary ==
  [totalFreq |-> 0, totalSeats |-> 0, totalPax |-> 0, catchmentFreq |-> 0,
   otherIndianFreq |-> 0, internationalFreq |-> 0,
   catchmentSeats |-> 0, otherIndianSeats |-> 0, internationalSeats |-> 0,
   catchmentPax |-> 0, otherIndianPax |-> 0, internationalPax |-> 0,
   topRegions |-> <<>>,
   windowStart |-> T(0, 0), windowEnd |-> T(0, 0),
   efficiencyIndex |-> Number(0)]

\* lines 1903-1908: the blocks of the other direction that pass the window
\* test, as <<slot, position>>
connectingBlocks(cd, source, sourceFlight, mctMins, windowMins) ==
  LET targetType == flipType(source.type)
  IN {p \in UNION {{<<idx, j>> : j \in 1..Len(ListOf(cd[idx], targetType))} :
                     idx \in DOMAIN cd} :
        isFlightInConnectionWindow(sourceFlight, source.slotIndex, source.type,
                                   ListOf(cd[p[1]], targetType)[p[2]], p[1],
                                   targetType, mctMins, windowMins)}

\* the sum of v over a set of blocks given by their places
SumAt(cd, type, places, v(_)) ==
  LET RECURSIVE Go(_)
      Go(R) == IF R = {} THEN 0
               ELSE LET p == CHOOSE x \in R : TRUE
                    IN v(ListOf(cd[p[1]], type)[p[2]]) + Go(R \ {p})
  IN Go(places)

\* A window start that is not brought back into the day.
windowStartNoWrap(earliestMins, sourceType, mctMins, windowMins) ==
  earliestMins + (IF sourceType = "arr" THEN mctMins ELSE 0 - windowMins - mctMins)

\* line 1954: windowStartMins
windowStartMins(earliestMins, sourceType, mctMins, windowMins) ==
  JsMod(earliestMins
          + (IF sourceType = "arr" THEN mctMins ELSE 0 - windowMins - mctMins)
          + DayMins, DayMins)

\* line 1955: windowEndMins
windowEndMins(latestMins, sourceType, mctMins, windowMins) ==
  JsMod(latestMins
          + (IF sourceType = "arr" THEN windowMins + mctMins ELSE 0 - mctMins)
          + DayMins, DayMins)

\* HubBankChart.tsx getSummary on the consolidated data cd
getSummary(cd, source, mctMins, windowMins) ==
  LET at == findSource(cd, source) IN
  IF at = 0 THEN emptySummary
  ELSE
    LET sourceFlight == ListOf(cd[source.slotIndex], source.type)[at]
        individualFlights == flightsOf(sourceFlight)
        timings == {getMinutes(source.slotIndex, individualFlights[i].exactTime) :
                      i \in 1..Len(individualFlights)}
        earliestMins == CHOOSE x \in timings : \A y \in timings : x <= y
        latestMins == CHOOSE x \in timings : \A y \in timings : y <= x
        targetType == flipType(source.type)
        hit == connectingBlocks(cd, source, sourceFlight, mctMins, windowMins)
        block(p) == ListOf(cd[p[1]], targetType)[p[2]]
        freqOf(f) == f.freq
        catchment == {p \in hit : inCategory("catchment", block(p).code)}
        indian == {p \in hit : inCategory("otherIndian", block(p).code)}
        international == {p \in hit : inCategory("international", block(p).code)}
        \* stats: the regions as keys in the order they are first counted
        regions == {regionOf(block(p)) : p \in hit}
        statsOf(r) == SumAt(cd, targetType, {p \in hit : regionOf(block(p)) = r},
                            freqOf)
        before(p, q) == p[1] < q[1] \/ (p[1] = q[1] /\ p[2] < q[2])
        firstOf(r) == CHOOSE p \in hit :
                        /\ regionOf(block(p)) = r
                        /\ \A q \in hit : regionOf(block(q)) = r => ~before(q, p)
        \* Object.entries(stats).sort((a, b) => b[1] - a[1]), a stable sort
        ahead(r, s) == statsOf(r) > statsOf(s)
                         \/ (statsOf(r) = statsOf(s) /\ before(firstOf(r), firstOf(s)))
        topRegions ==
          [k \in 1..Cardinality(regions) |->
             LET r == CHOOSE x \in regions :
                        Cardinality({y \in regions : ahead(y, x)}) = k - 1
             IN [region |-> r, freq |-> statsOf(r)]]
        totalFreq == SumAt(cd, targetType, hit, freqOf)
        internationalFreq == SumAt(cd, targetType, international, freqOf)
    IN [totalFreq |-> totalFreq,
        totalSeats |-> SumAt(cd, targetType, hit, seatsOf),
        totalPax |-> SumAt(cd, targetType, hit, paxOf),
        catchmentFreq |-> SumAt(cd, targetType, catchment, freqOf),
        otherIndianFreq |-> SumAt(cd, targetType, indian, freqOf),
        internationalFreq |-> internationalFreq,
        catchmentSeats |-> SumAt(cd, targetType, catchment, seatsOf),
        otherIndianSeats |-> SumAt(cd, targetType, indian, seatsOf),
        internationalSeats |-> SumAt(cd, targetType, international, seatsOf),
        catchmentPax |-> SumAt(cd, targetType, catchment, paxOf),
        otherIndianPax |-> SumAt(cd, targetType, indian, paxOf),
        internationalPax |-> SumAt(cd, targetType, international, paxOf),
        topRegions |-> topRegions,
        windowStart |->
          formatMins(windowStartMins(earliestMins, source.type, mctMins, windowMins)),
        windowEnd |->
          formatMins(windowEndMins(latestMins, source.type, mctMins, windowMins)),
        efficiencyIndex |-> efficiencyIndex(internationalFreq, totalFreq)]

\* getSummary(ref) of the comparison panel for the selected flight
summary == getSummary(consolidatedData, selectedRef, mctMinsOf(mct),
                      windowMinsOf(maxConnectionWindow))

\* ------------------------------------------------------ connection matcher
\* The matcher of the specification's section 4.3 (getTwoWaySummary is not
\* among the files of src/).
flightNoOf(f) == IF "flightNo" \in DOMAIN f THEN f.flightNo ELSE ""

\* the forward time difference of a candidate: from the MCT-adjusted arrival
\* to the candidate departure, or from the candidate arrival to the latest
\* arrival the focal departure accepts
forwardDiff(sourceType, sourceMins, targetMins, mctMins) ==
  IF sourceType = "arr"
  THEN JsMod(targetMins - validStartArr(sourceMins, mctMins) + DayMins, DayMins)
  ELSE JsMod(validEndDep(sourceMins, mctMins) - targetMins + DayMins, DayMins)

\* every individual flight of the other direction at another port that
\* connects, in scan order: slots ascending, blocks in list order, merged
\* blocks expanded
matcherCandidates(cd, source, mctMins, windowMins) ==
  LET at == findSource(cd, source)
      focal == ListOf(cd[source.slotIndex], source.type)[at]
      focalMins == getMinutes(source.slotIndex, flightsOf(focal)[1].exactTime)
      targetType == flipType(source.type)
      candidate(idx, f) ==
        [id |-> f.id, port |-> codePort(f.code), flightNo |-> flightNoOf(f),
         time |-> getMinutes(idx, f.exactTime), freq |-> f.freq,
         diff |-> forwardDiff(source.type, focalMins,
                              getMinutes(idx, f.exactTime), mctMins)]
      RECURSIVE OfList(_, _, _), OfSlots(_)
      OfList(idx, l, i) ==
        IF i > Len(l) THEN <<>>
        ELSE (IF /\ codePort(l[i].code) # codePort(focal.code)
                 /\ isFlightInConnectionWindow(flightsOf(focal)[1],
                      source.slotIndex, source.type, l[i], idx, targetType,
                      mctMins, windowMins)
              THEN <<candidate(idx, l[i])>> ELSE <<>>) \o OfList(idx, l, i + 1)
      expanded(idx) ==
        LET l == ListOf(cd[idx], targetType)
            RECURSIVE Ex(_)
            Ex(i) == IF i > Len(l) THEN <<>> ELSE flightsOf(l[i]) \o Ex(i + 1)
        IN Ex(1)
      OfSlots(idx) ==
        IF idx >= NumSlots THEN <<>>
        ELSE OfList(idx, expanded(idx), 1) \o OfSlots(idx + 1)
  IN IF at = 0 THEN <<>> ELSE OfSlots(0)

\* A selection that keeps every candidate.
keepAll(cands) == cands

\* per port and connecting flight the candidate of the smallest forward
\* difference, the first encountered among equals
keepBest(cands) ==
  LET sameFlight(i, j) ==
        cands[i].port = cands[j].port /\ cands[i].flightNo = cands[j].flightNo
      best(i) ==
        \A j \in 1..Len(cands) :
          (j # i /\ sameFlight(i, j)) =>
            \/ cands[i].diff < cands[j].diff
            \/ (cands[i].diff = cands[j].diff /\ i < j)
      kept == Ascending({i \in 1..Len(cands) : best(i)})
  IN [k \in 1..Len(kept) |-> cands[kept[k]]]

\* the connections of the selected flight
connections ==
  keepBest(matcherCandidates(consolidatedData, selectedRef, mctMinsOf(mct),
                             windowMinsOf(maxConnectionWindow)))

\* ------------------------------------------------------ chart specification
\* An uploaded file: three departures to DXB (one flight at two times and
\* another flight in the hour of the later one), a second row of the first
\* flight and time, a domestic departure, and arrivals from DXB and JED.
MasterFile ==
  << Leg("dep", "DXB", "EK", "EK1", 2, 20, 10, T(10, 10)),
     Leg("dep", "DXB", "EK", "EK2", 3, 30, 15, T(10, 50)),
     Leg("dep", "DXB", "EK", "EK1", 1, 10, 5, T(9, 40)),
     Leg("dep", "DXB", "EK", "EK1", 2, 20, 10, T(10, 10)),
     Leg("dep", "DEL", "6E", "6E1", 4, 40, 20, T(10, 20)),
     Leg("arr", "DXB", "EK", "EK3", 5, 50, 25, T(8, 0)),
     Leg("arr", "JED", "SV", "SV1", 6, 60, 30, T(8, 0)) >>

\* the files of at most n rows made of rows of file, in its order
FilesOf(file, n) ==
  {[k \in 1..Cardinality(S) |-> file[Ascending(S)[k]]] :
     S \in {R \in SUBSET (1..Len(file)) : Cardinality(R) <= n}}

\* a toolbar block after the edit dialog gave it a code and a time
editedBlock(id, code, time) ==
  [toolbarBlock EXCEPT !.id = id, !.code = code, !.exactTime = time]

\* Stores of the active hub the chart is drawn for: none, one or two manual
\* departures to DXB in the hour of the automatic ones, the two at one time.
ChartStores ==
  {EmptyHub,
   SetSlot(EmptyHub, 10,
     [arrivals |-> <<>>,
      departures |-> <<editedBlock(1, <<"DXB">>, T(10, 45))>>]),
   SetSlot(EmptyHub, 10,
     [arrivals |-> <<>>,
      departures |-> <<editedBlock(1, <<"DXB">>, T(10, 45)),
                       editedBlock(2, <<"DXB">>, T(10, 45))>>])}

\* Window slider positions the chart specification visits: 1 h and 6 h.
ChartWindows == {2, 12}

InitChart ==
  /\ manualBlocks \in {[d \in DatasetIds |->
                          IF d = datasets[1].id THEN hub ELSE EmptyHub] :
                        hub \in ChartStores}
  /\ persisted = manualBlocks
  /\ activeAirportId = datasets[1].id
  /\ nextId = MaxId + 1
  /\ mct = 6
  /\ maxConnectionWindow = 12
  /\ hoveredManualFlight = NoHover
  /\ connected = {}
  /\ chartRows \in FilesOf(MasterFile, MaxRows)
  /\ idDraw = 1
  /\ selectedRef = NoRef
  /\ snapshot = NoSnapshot
  /\ captured = NoSnapshot

\* a render that recomputes processedHubData and consolidatedData: a change
\* of a dependency of the memo back and forth leaves the input as it was and
\* draws new ids
Recompute ==
  /\ \E draw \in 1..MaxDraws : idDraw' = draw
  /\ UNCHANGED <<chartRows, selectedRef>>
  /\ UNCHANGED storeVars
  /\ UNCHANGED windowVars
  /\ UNCHANGED snapVars

\* handleFlightClick with ctrl or meta: the clicked block becomes a SelectionRef
SelectFlight ==
  /\ \E idx \in Slots, type \in Types :
       \E i \in 1..Len(ListOf(consolidatedData[idx], type)) :
         selectedRef' = [type |-> type, slotIndex |-> idx,
                         flightId |-> ListOf(consolidatedData[idx], type)[i].id]
  /\ UNCHANGED <<chartRows, idDraw>>
  /\ UNCHANGED storeVars
  /\ UNCHANGED windowVars
  /\ UNCHANGED snapVars

\* the window slider while the comparison panel is open
SetChartWindow ==
  /\ \E w \in ChartWindows \ {maxConnectionWindow} : maxConnectionWindow' = w
  /\ UNCHANGED <<mct, hoveredManualFlight, connected>>
  /\ UNCHANGED storeVars
  /\ UNCHANGED chartVars
  /\ UNCHANGED snapVars

NextChart ==
  \/ Recompute
  \/ SelectFlight
  \/ SetChartWindow

SpecChart == InitChart /\ [][NextChart]_vars

\* ------------------------------------------------------------- properties
\* Every call of handleManualDrop or updateManualFlight the user can make in
\* the current state.
Ops == ToolbarDrops \cup AutoDrops \cup ManualDrops \cup Edits

Entries(hubBlocks) == allManualFlights(hubBlocks)
Count(l, x) == Cardinality({i \in 1..Len(l) : l[i] = x})
ClockOf(minute) == T(minute \div 60, minute % 60)

\* The hub a written record F propagates to: its port has a dataset other than
\* the edited hub's, and F has an anchor and a time.
TargetOf(F) == findDatasetByCode(codePort(F.code))
Propagates(F) ==
  /\ TargetOf(F) # 0
  /\ datasets[TargetOf(F)].id # activeDataset.id
  /\ F.originalHubTime # NoTime
  /\ F.exactTime # NoTime
ShiftOf(F) == getMins(F.exactTime) - getMins(F.originalHubTime)
\* e is a reciprocal match of the record F a call of direction type writes:
\* opposite direction, code starting with the edited hub's port code, airline
\* match.
ReciprocalOf(e, type, F) ==
  isReciprocal(e, flipType(type), activeDataset.code, airlineOf(F))
\* the import of dataset number target has a row of the reciprocal direction
\* for the edited hub and F's airline
HasReciprocalRow(target, type, F) ==
  \E r \in 1..Len(datasets[target].data) :
    rowMatches(datasets[target].data[r], flipType(type), activeDataset.code,
               airlineOf(F))
HasReciprocalFlight(hubBlocks, type, F) ==
  \E i \in 1..Len(Entries(hubBlocks)) : ReciprocalOf(Entries(hubBlocks)[i], type, F)

\* C1: after a retime of an anchored manual flight F at hub A whose port has a
\* dataset B, every reciprocal match in B's store has the time of its own
\* originalHubTime shifted by F.exactTime - F.originalHubTime, modulo 1440.
C1_ReciprocalFollowsLatestRetime ==
  \A op \in Ops :
    LET F == Focal(op)
    IN Propagates(F) =>
         LET B == Entries(Result(op)[datasets[TargetOf(F)].id])
         IN \A i \in 1..Len(B) :
              ReciprocalOf(B[i], op.type, F) =>
                B[i].flight.exactTime =
                  ClockOf((getMins(B[i].flight.originalHubTime) + ShiftOf(F))
                            % DayMins)

\* C2: a propagation from hub A into hub B keeps every record of B that is
\* not a reciprocal match: the same records, as often, in the same hour bucket
\* and the same direction list.
C2_UnrelatedRecordsKept ==
  \A op \in Ops :
    LET F == Focal(op)
    IN Propagates(F) =>
         LET b0 == manualBlocks[datasets[TargetOf(F)].id]
             b1 == Result(op)[datasets[TargetOf(F)].id]
             unrelated(l, type) ==
               SelectSeq(l, LAMBDA f :
                 ~ReciprocalOf([type |-> type, flight |-> f], op.type, F))
         IN \A k \in DOMAIN b0 \cup DOMAIN b1 : \A type \in Types :
              LET l0 == unrelated(ListOf(SlotAt(b0, k), type), type)
                  l1 == unrelated(ListOf(SlotAt(b1, k), type), type)
              IN \A f \in {l0[i] : i \in 1..Len(l0)} \cup {l1[i] : i \in 1..Len(l1)} :
                   Count(l0, f) = Count(l1, f)

\* C3: when the port of the written record has no dataset, or its dataset has
\* neither a reciprocal manual flight nor an import row of the reciprocal
\* direction for hub A and the airline, a drop or update at hub A adds no
\* record to any other hub's store.
C3_NoFabrication ==
  \A op \in Ops :
    LET F == Focal(op)
        target == TargetOf(F)
    IN (\/ target = 0
        \/ /\ ~HasReciprocalFlight(manualBlocks[datasets[target].id], op.type, F)
           /\ ~HasReciprocalRow(target, op.type, F)) =>
         LET R == Result(op)
         IN \A d \in DatasetIds \ {activeDataset.id} :
              /\ Len(Entries(R[d])) <= Len(Entries(manualBlocks[d]))
              /\ HubFlights(R[d]) \subseteq HubFlights(manualBlocks[d])

\* a promoted departure to JED sits retimed in BLR's store, JED's import has no
\* arrival from BLR, and JED's store is empty
C3_Witness ==
  /\ manualBlocks["d2"] = EmptyHub
  /\ \E f \in HubFlights(manualBlocks["d1"]) :
       /\ f.code = <<"JED", "NEW">>
       /\ f.originalHubTime = T(23, 30)
       /\ f.exactTime = T(10, 45)

\* C4: after every drop or update at hub A the written record is in A's store,
\* in the list of its direction, with the time the call gave it (the slot's
\* hour when a drop gave none) and in the bucket of that time's hour.
C4_LocalEditCommits ==
  \A op \in Ops :
    LET A == Result(op)[activeDataset.id]
        id == IF op.block.id # 0 THEN op.block.id ELSE op.newId
        time == IF op.block.exactTime # NoTime \/ op.kind = "update"
                THEN op.block.exactTime
                ELSE slotTime(op.slotIndex)
    IN \E k \in DOMAIN A :
         /\ time # NoTime => k = hourOf(time)
         /\ \E i \in 1..Len(ListOf(A[k], op.type)) :
              /\ ListOf(A[k], op.type)[i].id = id
              /\ ListOf(A[k], op.type)[i].exactTime = time

\* a promoted departure to DXB, which has no dataset, sits retimed in BLR's store
C4_Witness ==
  \E k \in DOMAIN manualBlocks["d1"] :
    \E i \in 1..Len(manualBlocks["d1"][k].departures) :
      /\ manualBlocks["d1"][k].departures[i].code = <<"DXB", "NEW">>
      /\ manualBlocks["d1"][k].departures[i].exactTime = T(10, 45)
      /\ k = 10

\* C5: the store the persistence effect has written out is the store every
\* read sees, and the one result of an updater holds hub A's edit together
\* with hub B's write: when B has a reciprocal manual flight or a reciprocal
\* import row, the result has the written record in A's store and a
\* reciprocal record in B's store.
C5_EditAndPropagationAreOneStep ==
  /\ persisted = manualBlocks
  /\ \A op \in Ops :
       LET F == Focal(op)
           target == TargetOf(F)
       IN (/\ Propagates(F)
           /\ \/ HasReciprocalFlight(manualBlocks[datasets[target].id], op.type, F)
              \/ HasReciprocalRow(target, op.type, F)) =>
            LET R == Result(op)
            IN /\ F \in HubFlights(R[activeDataset.id])
               /\ HasReciprocalFlight(R[datasets[target].id], op.type, F)

\* the persisted store holds BLR's retimed arrival from JED together with the
\* reciprocal departure written to JED by the same updater
C5_Witness ==
  /\ \E f \in HubFlights(persisted["d1"]) :
       f.code = <<"JED", "NEW">> /\ f.exactTime = T(10, 45)
         /\ f.originalHubTime = T(10, 0)
  /\ \E g \in HubFlights(persisted["d2"]) :
       g.code = <<"BLR", "SV", "SYNC">> /\ g.exactTime = T(14, 45)

\* C6: every record of every hub's store has isManual = true and an id.
C6_ManualAndIdentified ==
  \A d \in DatasetIds : \A f \in HubFlights(manualBlocks[d]) :
    f.isManual /\ f.id # 0

\* the store holds a promoted automatic flight at BLR and a propagated record
\* at JED
C6_Witness ==
  /\ \E f \in HubFlights(manualBlocks["d1"]) : codeIncludes(f.code, "NEW")
  /\ \E g \in HubFlights(manualBlocks["d2"]) : codeIncludes(g.code, "SYNC")

\* C7: no step changes the originalHubTime of a record that has one.
C7_AnchorImmutable ==
  [][\A d \in DatasetIds : \A f \in HubFlights(manualBlocks[d]) :
       f.originalHubTime # NoTime =>
         \A g \in HubFlights(manualBlocks'[d]) :
           g.id = f.id => g.originalHubTime = f.originalHubTime]_vars

\* JED's promoted departure to BLR has been moved to 14:45 by a retime at BLR
\* (no time typed at JED gives that hour) and still has its anchor
C7_Witness ==
  \E g \in HubFlights(manualBlocks["d2"]) :
    /\ g.code = <<"BLR", "NEW">>
    /\ g.originalHubTime = T(14, 0)
    /\ g.exactTime = T(14, 45)

\* --------------------------------------------- properties of the window
AllMinutes == 0..(DayMins - 1)
\* a single flight of the chart at a minute of the day
FlightAt(minute) == [exactTime |-> ClockOf(minute), mergedFlights |-> <<>>]
hoveredMins ==
  getMinutes(hoveredManualFlight.slotIndex, hoveredManualFlight.flight.exactTime)
mctMins == mctMinsOf(mct)
windowMins == windowMinsOf(maxConnectionWindow)
\* minutes from start forward to val, around the clock
ForwardDistance(start, val) ==
  IF val >= start THEN val - start ELSE val - start + DayMins
\* the start of the window the chart tests the other direction's flights with
hoveredWindowStart ==
  IF hoveredManualFlight.type = "arr" THEN validStartArr(hoveredMins, mctMins)
  ELSE validStartDep(validEndDep(hoveredMins, mctMins), windowMins)

\* C8: checkInWindow(val, start, duration) is true exactly when the forward
\* distance from start to val around the clock is at most duration, for every
\* minute val, the window start of the hovered flight and the window length
\* of the slider.
C8_CheckInWindowIsForwardDistance ==
  hoveredManualFlight # NoHover =>
    \A val \in AllMinutes :
      checkInWindow(val, hoveredWindowStart, windowMins)
        <=> (ForwardDistance(hoveredWindowStart, val) <= windowMins)

\* an arrival at 22:00 with MCT 1.5 h and a window of 1.5 h opens the window at
\* 23:30: the departure at 00:45 is ringed, the one at 01:01 is not
C8_Witness ==
  /\ hoveredManualFlight = ChartFlight("arr", 22, T(22, 0))
  /\ mct = 6
  /\ maxConnectionWindow = 3
  /\ ChartFlight("dep", 0, T(0, 45)) \in connected
  /\ ChartFlight("dep", 1, T(1, 1)) \notin connected

\* C9: with an arrival at minute t hovered, a departure at minute d is in its
\* connection window exactly when (d - (t + MCT)) mod 1440 is at most Window.
C9_ArrivalFocalWindow ==
  hoveredManualFlight.type = "arr" =>
    /\ \A d \in AllMinutes :
         isFlightInConnectionWindow(hoveredManualFlight.flight,
                                    hoveredManualFlight.slotIndex, "arr",
                                    FlightAt(d), d \div 60, "dep",
                                    mctMins, windowMins)
           <=> ((d - (hoveredMins + mctMins)) % DayMins <= windowMins)
    /\ connected =
         {c \in ChartFlights :
            /\ c.type = "dep"
            /\ (getMinutes(c.slotIndex, c.flight.exactTime)
                  - (hoveredMins + mctMins)) % DayMins <= windowMins}

\* MCT 90 min, window 360 min: the arrival at 08:00 connects to the departure
\* at 10:00 and not to the one at 09:00
C9_Witness ==
  /\ hoveredManualFlight = ChartFlight("arr", 8, T(8, 0))
  /\ mct = 6
  /\ maxConnectionWindow = 12
  /\ ChartFlight("dep", 10, T(10, 0)) \in connected
  /\ ChartFlight("dep", 9, T(9, 0)) \notin connected

\* C10: for one arrival and one departure the test gives the same answer with
\* the arrival as the source and with the departure as the source.
C10_DepartureFocalMirrorsArrivalFocal ==
  hoveredManualFlight # NoHover =>
    \A x \in AllMinutes :
      isFlightInConnectionWindow(hoveredManualFlight.flight,
                                 hoveredManualFlight.slotIndex,
                                 hoveredManualFlight.type,
                                 FlightAt(x), x \div 60,
                                 flipType(hoveredManualFlight.type),
                                 mctMins, windowMins)
        <=> isFlightInConnectionWindow(FlightAt(x), x \div 60,
                                       flipType(hoveredManualFlight.type),
                                       hoveredManualFlight.flight,
                                       hoveredManualFlight.slotIndex,
                                       hoveredManualFlight.type,
                                       mctMins, windowMins)

\* MCT 90 min, window 360 min: the departure at 15:30 rings the arrival at
\* 08:00, the first minute of its window, and not the arrival at 22:00
C10_Witness ==
  /\ hoveredManualFlight = ChartFlight("dep", 15, T(15, 30))
  /\ mct = 6
  /\ maxConnectionWindow = 12
  /\ ChartFlight("arr", 8, T(8, 0)) \in connected
  /\ ChartFlight("arr", 22, T(22, 0)) \notin connected

\* ------------------------------------------------------ chart: properties
IsMerged(b) == "isMerged" \in DOMAIN b
AutoOf(l) == SelectSeq(l, LAMBDA f : ~f.isManual)
ManualOf(l) == SelectSeq(l, LAMBDA f : f.isManual)
FieldSum(l, v(_)) == SeqSum([n \in 1..Len(l) |-> v(l[n])])
FreqOf(f) == f.freq
\* the individual flights of the blocks of a list that carry code c, in order
IndividualsOf(l, c) ==
  LET RECURSIVE Go(_)
      Go(i) == IF i > Len(l) THEN <<>>
               ELSE (IF l[i].code = c THEN flightsOf(l[i]) ELSE <<>>) \o Go(i + 1)
  IN Go(1)

\* C11: every merged block's freq, seats and pax are the sums over its
\* constituents, and the constituents of the blocks of an automatic port code
\* are exactly the automatic records of that code, slot and direction, in
\* source order, none lost, altered or duplicated.
C11_MergedBlockIsSumOfConstituents ==
  \A idx \in Slots : \A type \in Types :
    LET src == AutoOf(ListOf(hubSlots[idx], type))
        out == AutoOf(ListOf(consolidatedData[idx], type))
    IN /\ \A i \in 1..Len(out) :
            IsMerged(out[i]) =>
              /\ Len(out[i].mergedFlights) > 1
              /\ out[i].freq = FieldSum(out[i].mergedFlights, FreqOf)
              /\ out[i].seats = FieldSum(out[i].mergedFlights, seatsOf)
              /\ out[i].pax = FieldSum(out[i].mergedFlights, paxOf)
       /\ \A i \in 1..Len(src) :
            /\ IndividualsOf(out, src[i].code)
                 = SelectSeq(src, LAMBDA f : f.code = src[i].code)
            /\ Cardinality({k \in 1..Len(out) : out[k].code = src[i].code}) = 1

\* a merged block of two DXB departures of frequencies 2 and 3 in slot 10
C11_Witness ==
  \E i \in 1..Len(consolidatedData[10].departures) :
    LET b == consolidatedData[10].departures[i]
    IN /\ IsMerged(b)
       /\ b.freq = 5
       /\ b.seats = 50
       /\ Len(b.mergedFlights) = 2
       /\ b.mergedFlights[1].freq = 2
       /\ b.mergedFlights[2].freq = 3

\* C12: in every slot and direction the manual flights of the consolidated
\* view are the manual records of the slot, one block each and unchanged, no
\* manual block is a merged block, and no merged block has a manual
\* constituent.
C12_ManualFlightsNeverMerged ==
  \A idx \in Slots : \A type \in Types :
    LET src == ListOf(hubSlots[idx], type)
        out == ListOf(consolidatedData[idx], type)
    IN /\ ManualOf(out) = ManualOf(src)
       /\ \A i \in 1..Len(out) :
            IsMerged(out[i]) =>
              /\ ~out[i].isManual
              /\ \A n \in 1..Len(out[i].mergedFlights) :
                   ~out[i].mergedFlights[n].isManual

\* two manual DXB departures and a merged block of automatic DXB departures
\* in slot 10
C12_Witness ==
  LET out == consolidatedData[10].departures
  IN /\ Len(SelectSeq(out, LAMBDA f : f.isManual /\ f.code = <<"DXB">>)) = 2
     /\ \E i \in 1..Len(out) : IsMerged(out[i]) /\ out[i].code = <<"DXB">>

\* the flight a reference names, when it names one
SourceFound == selectedRef # NoRef /\ findSource(consolidatedData, selectedRef) # 0
SourceFlight ==
  ListOf(consolidatedData[selectedRef.slotIndex], selectedRef.type)[
    findSource(consolidatedData, selectedRef)]
\* the individual flights of the other direction that pass the window test
\* themselves, as <<slot, position, constituent>>
ConnectingIndividuals ==
  LET targetType == flipType(selectedRef.type)
      l(idx) == ListOf(consolidatedData[idx], targetType)
  IN {q \in UNION {UNION {{<<idx, j, n>> : n \in 1..Len(flightsOf(l(idx)[j]))} :
                            j \in 1..Len(l(idx))} : idx \in Slots} :
        isFlightInConnectionWindow(SourceFlight, selectedRef.slotIndex,
                                   selectedRef.type,
                                   flightsOf(l(q[1])[q[2]])[q[3]], q[1],
                                   targetType, mctMinsOf(mct),
                                   windowMinsOf(maxConnectionWindow))}
IndividualSum(v(_)) ==
  LET targetType == flipType(selectedRef.type)
      RECURSIVE Go(_)
      Go(R) ==
        IF R = {} THEN 0
        ELSE LET q == CHOOSE x \in R : TRUE
             IN v(flightsOf(ListOf(consolidatedData[q[1]], targetType)[q[2]])[q[3]])
                  + Go(R \ {q})
  IN Go(ConnectingIndividuals)

\* C13: the connecting totals of a summary are the sums over the individual
\* flights that pass the window test themselves; a merged block with one
\* constituent inside the window and one outside adds the inside one only.
C13_SummaryCountsIndividuals ==
  SourceFound =>
    /\ summary.totalFreq = IndividualSum(FreqOf)
    /\ summary.totalSeats = IndividualSum(seatsOf)
    /\ summary.totalPax = IndividualSum(paxOf)

\* the consolidated data without the blocks of direction type at port
withoutPort(cd, type, port) ==
  [idx \in DOMAIN cd |->
     WithList(cd[idx], type,
              SelectSeq(ListOf(cd[idx], type), LAMBDA f : codePort(f.code) # port))]

\* C14: no flight of the opposite direction at the focal flight's own port is
\* counted: the totals are those of the chart without such flights.
C14_OwnPortIsNoCandidate ==
  SourceFound =>
    LET other == getSummary(withoutPort(consolidatedData,
                                        flipType(selectedRef.type),
                                        codePort(SourceFlight.code)),
                            selectedRef, mctMinsOf(mct),
                            windowMinsOf(maxConnectionWindow))
    IN /\ summary.totalFreq = other.totalFreq
       /\ summary.totalSeats = other.totalSeats
       /\ summary.totalPax = other.totalPax

\* C15: a recomputation on the same rows, store and parameters gives the same
\* hub slots, consolidated blocks and summary, ids included.
C15_DerivedDataIsPure ==
  [][(/\ chartRows' = chartRows
      /\ manualBlocks' = manualBlocks
      /\ activeAirportId' = activeAirportId
      /\ mct' = mct
      /\ maxConnectionWindow' = maxConnectionWindow
      /\ selectedRef' = selectedRef)
     => (/\ hubSlots' = hubSlots
         /\ consolidatedData' = consolidatedData
         /\ summary' = summary)]_vars

\* C17: a summary whose total connecting frequency is zero has the
\* international share 0, and the summary of a reference that names no flight
\* has every total 0.
C17_ZeroTotalGivesZeroShare ==
  selectedRef # NoRef =>
    LET s == summary
    IN /\ s.totalFreq = 0 => s.efficiencyIndex = Number(0)
       /\ s.efficiencyIndex[2] # 0
       /\ ~SourceFound =>
            /\ s.totalFreq = 0
            /\ s.totalSeats = 0
            /\ s.totalPax = 0
            /\ s.catchmentFreq = 0
            /\ s.otherIndianFreq = 0
            /\ s.internationalFreq = 0

\* a selected arrival with no departure in its window
C17_Witness ==
  /\ SourceFound
  /\ selectedRef.type = "arr"
  /\ summary.totalFreq = 0
  /\ summary.efficiencyIndex = Number(0)

\* the candidates the matcher chooses among for the selected flight
Candidates ==
  matcherCandidates(consolidatedData, selectedRef, mctMinsOf(mct),
                    windowMinsOf(maxConnectionWindow))

firstTouchAnchor(op) ==
  LET row == findRow(activeDataset.data, op.type, codePort(op.block.code),
                     airlineOf(op.block))
  IN IF row # 0 THEN activeDataset.data[row].hub_time
     ELSE slotTime(IF op.fromSlot # NoSlot THEN op.fromSlot ELSE op.slotIndex)
\* the record of the dropped block as the store holds it after the drop
StoredAfter(op) ==
  {f \in HubFlights(Result(op)[activeDataset.id]) : f.id = Focal(op).id}

\* C19: a drop of a flight with no manual history, a promoted automatic flight
\* or a block newly injected from the toolbar, stores a record whose
\* originalHubTime is the hub_time of the matching import row, or the top of
\* the hour of the slot it came from when no import row matches.
C19_FirstTouchAnchors ==
  \A op \in ToolbarDrops \cup AutoDrops :
    /\ StoredAfter(op) # {}
    /\ \A f \in StoredAfter(op) : f.originalHubTime = firstTouchAnchor(op)

\* the same for promoted automatic flights alone
C19_PromotionAnchors ==
  \A op \in AutoDrops :
    /\ StoredAfter(op) # {}
    /\ \A f \in StoredAfter(op) : f.originalHubTime = firstTouchAnchor(op)

\* ------------------------------------------- properties of the hour buckets
\* the places <<bucket, direction, position>> of a hub's store
PlacesOf(hubBlocks) ==
  UNION {UNION {{<<b, type, i>> : i \in 1..Len(ListOf(hubBlocks[b], type))} :
                  type \in Types} : b \in DOMAIN hubBlocks}
RecordAt(hubBlocks, p) == ListOf(hubBlocks[p[1]], p[2])[p[3]]
\* every record of the store that has a time sits in the bucket of its hour
InBucketOfHour(hubBlocks) ==
  \A p \in PlacesOf(hubBlocks) :
    RecordAt(hubBlocks, p).exactTime # NoTime =>
      p[1] = hourOf(RecordAt(hubBlocks, p).exactTime)
\* the places of the store that hold a record of the given id
PlacesOfId(hubBlocks, id) ==
  {p \in PlacesOf(hubBlocks) : RecordAt(hubBlocks, p).id = id}
\* the calls made with a valid HH:mm time
TimedOps == {op \in Ops : op.block.exactTime # NoTime}
\* the calls made on a record the store holds once at most, and those of them
\* that move a stored record, within its own direction
SameRowOps ==
  {op \in TimedOps :
     /\ Cardinality(PlacesOfId(manualBlocks[activeDataset.id], op.block.id)) <= 1
     /\ op \in ManualDrops =>
          \E p \in PlacesOfId(manualBlocks[activeDataset.id], op.block.id) :
            p[2] = op.type}

\* C20: after a drop or an update with a valid HH:mm time, and the propagation
\* it makes, every record of every hub's store sits in the bucket of the hour
\* of its exactTime, and the written record is in the edited hub's store
\* exactly once, in the bucket of its new hour (not in its old bucket too).
C20_HourBucketConsistency ==
  \A op \in TimedOps :
    /\ \A d \in DatasetIds : InBucketOfHour(Result(op)[d])
    /\ \E p \in PlacesOf(Result(op)[activeDataset.id]) :
         /\ PlacesOfId(Result(op)[activeDataset.id], Focal(op).id) = {p}
         /\ p[1] = hourOf(Focal(op).exactTime)

\* the buckets alone
C20_EveryRecordInItsHour ==
  \A op \in TimedOps : \A d \in DatasetIds : InBucketOfHour(Result(op)[d])

\* the whole statement for the calls that stay in the direction of the record
C20_SameDirectionMoves ==
  \A op \in SameRowOps :
    /\ \A d \in DatasetIds : InBucketOfHour(Result(op)[d])
    /\ \E p \in PlacesOf(Result(op)[activeDataset.id]) :
         /\ PlacesOfId(Result(op)[activeDataset.id], Focal(op).id) = {p}
         /\ p[1] = hourOf(Focal(op).exactTime)

\* ------------------------------------------------ properties of scenarios
\* C16: loading the scenario sets the store, the MCT and the window to the
\* values they had when the scenario was captured, whatever drops, updates,
\* deletes and propagations were made in between.
C16_SnapshotRoundTrip ==
  [][LoadSnapshot =>
       /\ manualBlocks' = captured.manualBlocks
       /\ mct' = captured.mct
       /\ maxConnectionWindow' = captured.maxConnectionWindow]_vars

\* --------------------------------------------------- times of the import
\* hub_time cells of an uploaded file (App.tsx line 505 takes the cell as it
\* is): a well-formed time, minutes out of range, both in the last hour, and
\* a cell with no colon, which reads as NoTime
ImportTimes == {T(10, 30), T(10, 75), T(23, 30), T(23, 75), NoTime}
\* processedHubData, lines 403-405 and 423: the flight of a row is charted in
\* the slot of its hour with the cell as its exactTime; a manual record whose
\* time was cleared stays in its slot with no time
ImportedFlights ==
  {ChartFlight(type, hourOf(t), t) :
     type \in Types, t \in {u \in ImportTimes : hourOf(u) \in Slots}}
    \cup {ChartFlight(type, s, NoTime) : type \in Types, s \in {0, 10, 23}}

\* onMouseEnter of a flight of the chart of such a file
HoverImported ==
  \E h \in ImportedFlights :
    /\ h # hoveredManualFlight
    /\ Render(mct, maxConnectionWindow, h)

NextTimes ==
  \/ HoverImported
  \/ LeaveFlight
  \/ SetMct

SpecTimes == Init /\ [][NextTimes]_vars

\* ------------------------------------------------ properties of the times
\* a time with a colon, an hour in 00..23 and a minute in 00..59
WellFormed(t) == t # NoTime /\ t[1] \in 0..23 /\ t[2] \in 0..59

\* C21: the minute value getMinutes gives for the hovered flight lies in
\* 0..1439, and for a time that has no colon or an hour or a minute out of
\* range it is the top of the hour of the flight's slot.
C21_MalformedTimesFailSoft ==
  hoveredManualFlight # NoHover =>
    /\ hoveredMins \in 0..(DayMins - 1)
    /\ ~WellFormed(hoveredManualFlight.flight.exactTime) =>
         hoveredMins = hoveredManualFlight.slotIndex * 60

\* the same for the times with no colon alone
C21_NoColonFallsBack ==
  hoveredManualFlight # NoHover /\ hoveredManualFlight.flight.exactTime = NoTime =>
    /\ hoveredMins \in 0..(DayMins - 1)
    /\ hoveredMins = hoveredManualFlight.slotIndex * 60

\* ------------------------------------ properties of the consolidated view
\* the distinct codes of a list in the order they first occur
RECURSIVE CodesOf(_)
CodesOf(l) ==
  IF l = <<>> THEN <<>>
  ELSE <<l[1].code>> \o CodesOf(SelectSeq(Tail(l), LAMBDA f : f.code # l[1].code))

\* C22: in every slot and direction the consolidated view lists one block per
\* port code of the automatic flights, in the order the codes first occur, and
\* then the manual flights in source order; the block of a code with one
\* automatic flight is that flight unchanged, the block of a code with two or
\* more is one merged block of them, whatever their airlines and flight
\* numbers.
C22_ShapeAndOrder ==
  \A idx \in Slots : \A type \in Types :
    LET src == ListOf(hubSlots[idx], type)
        out == ListOf(consolidatedData[idx], type)
        codes == CodesOf(AutoOf(src))
        group(k) == SelectSeq(AutoOf(src), LAMBDA f : f.code = codes[k])
    IN /\ Len(out) = Len(codes) + Len(ManualOf(src))
       /\ \A k \in 1..Len(codes) :
            /\ ~out[k].isManual
            /\ out[k].code = codes[k]
            /\ Len(group(k)) = 1 => out[k] = group(k)[1]
            /\ Len(group(k)) > 1 =>
                 IsMerged(out[k]) /\ out[k].mergedFlights = group(k)
       /\ \A j \in 1..Len(ManualOf(src)) :
            out[Len(codes) + j] = ManualOf(src)[j]

\* slot 10 departures: the merged DXB block of EK1 and EK2, then the single
\* DEL flight as it was, then a manual DXB flight
C22_Witness ==
  LET out == consolidatedData[10].departures
  IN /\ Len(out) = 3
     /\ IsMerged(out[1]) /\ out[1].code = <<"DXB">>
     /\ out[1].mergedFlights[1].flightNo # out[1].mergedFlights[2].flightNo
     /\ ~IsMerged(out[2]) /\ out[2].code = <<"DEL">> /\ ~out[2].isManual
     /\ out[3].isManual

\* ------------------------------------------------ the comparison panel
\* A file with flights on both sides of midnight: two DXB arrivals of one
\* hour (one merged block), an evening arrival, and departures after midnight
\* to an international, an Indian and a catchment port.
PanelFile ==
  << Leg("arr", "DXB", "EK", "EK3", 5, 50, 25, T(23, 10)),
     Leg("arr", "DXB", "EK", "EK4", 1, 10, 5, T(23, 50)),
     Leg("dep", "JED", "SV", "SV1", 6, 60, 30, T(0, 40)),
     Leg("dep", "DEL", "6E", "6E1", 4, 40, 20, T(1, 0)),
     Leg("dep", "MAA", "6E", "6E2", 2, 20, 10, T(1, 10)),
     Leg("arr", "JED", "SV", "SV2", 3, 30, 15, T(18, 40)) >>

InitPanel ==
  /\ manualBlocks = [d \in DatasetIds |-> EmptyHub]
  /\ persisted = manualBlocks
  /\ activeAirportId = datasets[1].id
  /\ nextId = 1
  /\ mct = 6
  /\ maxConnectionWindow = 12
  /\ hoveredManualFlight = NoHover
  /\ connected = {}
  /\ chartRows = PanelFile
  /\ idDraw = 1
  /\ selectedRef = NoRef
  /\ snapshot = NoSnapshot
  /\ captured = NoSnapshot

\* the panel of a selected flight while the two sliders are moved
NextPanel ==
  \/ SelectFlight
  \/ SetMct
  \/ SetMaxConnectionWindow

SpecPanel == InitPanel /\ [][NextPanel]_vars

\* ------------------------------------------- properties of the summary
\* the earliest and latest minute of the constituents of the selected block
SourceTimes ==
  {getMinutes(selectedRef.slotIndex, flightsOf(SourceFlight)[i].exactTime) :
     i \in 1..Len(flightsOf(SourceFlight))}
Earliest == CHOOSE x \in SourceTimes : \A y \in SourceTimes : x <= y
Latest == CHOOSE x \in SourceTimes : \A y \in SourceTimes : y <= x

\* C23: the summary of a focal arrival block with earliest and latest times e
\* and l has windowStart = (e + MCT) mod 1440 and windowEnd = (l + MCT +
\* Window) mod 1440, that of a focal departure block windowStart = (e - Window
\* - MCT) mod 1440 and windowEnd = (l - MCT) mod 1440, each a clock time in
\* 00:00..23:59.
C23_SummaryWindow ==
  SourceFound =>
    LET s == summary
    IN /\ WellFormed(s.windowStart) /\ WellFormed(s.windowEnd)
       /\ selectedRef.type = "arr" =>
            /\ s.windowStart = ClockOf((Earliest + mctMins) % DayMins)
            /\ s.windowEnd = ClockOf((Latest + mctMins + windowMins) % DayMins)
       /\ selectedRef.type = "dep" =>
            /\ s.windowStart = ClockOf((Earliest - windowMins - mctMins) % DayMins)
            /\ s.windowEnd = ClockOf((Latest - mctMins) % DayMins)

\* the merged DXB arrivals of 23:10 and 23:50 with MCT 1.5 h and window 6 h:
\* the window is 00:40 to 07:20, past midnight
C23_Witness ==
  /\ SourceFound
  /\ mct = 6 /\ maxConnectionWindow = 12
  /\ selectedRef.type = "arr" /\ Earliest = 1390 /\ Latest = 1430
  /\ summary.windowStart = T(0, 40) /\ summary.windowEnd = T(7, 20)

\* ---------------------------------------------- properties of the ids
\* C24: no two records of one hub's store, over all hour buckets and both
\* direction lists, share an id.
C24_IdsUniqueInHub ==
  \A d \in DatasetIds :
    \A p \in PlacesOf(manualBlocks[d]) : \A q \in PlacesOf(manualBlocks[d]) :
      RecordAt(manualBlocks[d], p).id = RecordAt(manualBlocks[d], q).id => p = q

\* the same after the calls that are no move of a record to the other
\* direction, on a store whose ids are unique
C24_UniqueButForCrossMoves ==
  C24_IdsUniqueInHub =>
    \A op \in Ops :
      (op \in ManualDrops =>
         \E p \in PlacesOfId(manualBlocks[activeDataset.id], op.block.id) :
           p[2] = op.type)
      => \A d \in DatasetIds :
           \A p \in PlacesOf(Result(op)[d]) : \A q \in PlacesOf(Result(op)[d]) :
             RecordAt(Result(op)[d], p).id = RecordAt(Result(op)[d], q).id => p = q

\* ------------------------------------- properties of repeated propagation
\* the store after the edit op is saved a second time: the record is edited
\* where the first save put it, with the values the first save wrote
SavedAgain(op) ==
  updateManualFlight(Result(op), activeDataset,
                     updateTargetSlot(op.slotIndex, Focal(op)), op.type,
                     Focal(op), op.syncId + 1)

\* C25: saving the same edit of a flight at hub A a second time leaves the
\* store of every other hub exactly as the first save left it.
C25_PropagationIdempotent ==
  \A op \in Edits :
    \A d \in DatasetIds \ {activeDataset.id} : SavedAgain(op)[d] = Result(op)[d]

\* the same for target hubs whose reciprocal matches all have an anchor
C25_IdempotentOnAnchoredMatches ==
  \A op \in Edits :
    \A d \in DatasetIds \ {activeDataset.id} :
      (\A i \in 1..Len(Entries(manualBlocks[d])) :
         ReciprocalOf(Entries(manualBlocks[d])[i], op.type, Focal(op)) =>
           Entries(manualBlocks[d])[i].flight.originalHubTime # NoTime)
      => SavedAgain(op)[d] = Result(op)[d]

\* ------------------------------------------- promotions at their import time
\* BLR's file with a second arrival of the same port and airline later in the
\* day: the rows of datasets[1], then JED SV again at 18:00.
repeatedRows == Append(datasets[1].data, Row("JED", "SV", "", "", T(18, 0)))
loadedDataset == [datasets[1] EXCEPT !.data = repeatedRows]

\* an automatic flight of the loaded file dragged to a slot and confirmed with
\* a typed time or with the time its row has in the file
Promotions ==
  UNION {{DropOp(s, type,
                 [autoFlight(repeatedRows[r], type, nextId) EXCEPT !.exactTime = t],
                 hourOf(repeatedRows[r].hub_time), nextId, laterId) :
            r \in {i \in 1..Len(repeatedRows) : rowCode(repeatedRows[i], type) # ""},
            t \in UserTimes \cup {repeatedRows[i].hub_time : i \in 1..Len(repeatedRows)}} :
         s \in DropSlots, type \in Types}
Promoted(op) ==
  dropNewBlock(manualBlocks, loadedDataset, op.slotIndex, op.type, op.block,
               op.fromSlot, op.newId)
PromoteResult(op) ==
  handleManualDrop(manualBlocks, loadedDataset, op.slotIndex, op.type, op.block,
                   op.fromSlot, op.newId, op.syncId)
PromoteAuto ==
  /\ activeAirportId = loadedDataset.id
  /\ \E op \in Promotions : Commit(PromoteResult(op), snapshot)

NextPromote ==
  \/ PromoteAuto
  \/ EditManual
  \/ TrashManual
SpecPromote == Init /\ [][NextPromote]_vars

\* the time the dragged flight has in the file: the hub_time of its own row
importTime(op) ==
  {repeatedRows[r].hub_time :
     r \in {i \in 1..Len(repeatedRows) :
              /\ hourOf(repeatedRows[i].hub_time) = op.fromSlot
              /\ rowCode(repeatedRows[i], op.type) = codePort(op.block.code)}}
Unretimed(op) == op.block.exactTime \in importTime(op)
\* the reciprocal records of the promoted flight at the other hubs
ReciprocalsAfter(op) ==
  UNION {{Entries(PromoteResult(op)[d])[i].flight :
            i \in {j \in 1..Len(Entries(PromoteResult(op)[d])) :
                     ReciprocalOf(Entries(PromoteResult(op)[d])[j], op.type,
                                  Promoted(op))}} :
         d \in DatasetIds \ {loadedDataset.id}}

\* C26: a promotion that leaves the flight at the time it has in the file
\* stores an originalHubTime equal to that time (delta 0), and every reciprocal
\* record at the other hub then sits at its own anchor, also when the file has
\* several rows of the same port and airline at different times.
C26_UnretimedPromotionNoShift ==
  \A op \in Promotions :
    Unretimed(op) =>
      /\ Promoted(op).originalHubTime = op.block.exactTime
      /\ \A f \in ReciprocalsAfter(op) : f.exactTime = f.originalHubTime

\* the same for the flights whose row is the first of its port and airline
C26_NoShiftOnFirstRow ==
  \A op \in Promotions :
    (/\ Unretimed(op)
     /\ dropAnchor(loadedDataset, op.slotIndex, op.type, op.block, op.fromSlot)
          \in importTime(op))
    => /\ Promoted(op).originalHubTime = op.block.exactTime
       /\ \A f \in ReciprocalsAfter(op) : f.exactTime = f.originalHubTime

\* ------------------------------------------- promoted blocks of the chart
\* the dataset of the chart: the active hub with the rows of the loaded file
shownDataset == [activeDataset EXCEPT !.data = chartRows]

\* onDragStart (JSON.stringify(flight)) and handleDrop: an automatic block of
\* the consolidated chart, merged or not, dragged to the slot it stands in and
\* confirmed with the preset hour or a typed time; the block goes with all its
\* fields, mergedFlights included
ShownPromotions ==
  UNION {{DropOp(idx, type,
                 [(ListOf(consolidatedData[idx], type)[i]
                     @@ [originalHubTime |-> NoTime])
                    EXCEPT !.id = nextId, !.exactTime = t],
                 idx, nextId, laterId) :
            i \in {j \in 1..Len(ListOf(consolidatedData[idx], type)) :
                     ~ListOf(consolidatedData[idx], type)[j].isManual},
            t \in UserTimes \cup {slotTime(idx)}} :
         idx \in Slots, type \in Types}
PromoteShown ==
  \E op \in ShownPromotions :
    Commit(handleManualDrop(manualBlocks, shownDataset, op.slotIndex, op.type,
                            op.block, op.fromSlot, op.newId, op.syncId),
           snapshot)

NextRetime ==
  \/ PromoteShown
  \/ SelectFlight
SpecRetime == InitPanel /\ [][NextRetime]_vars

\* the focal record alone, at the time it stands at now
OwnTime == getMinutes(selectedRef.slotIndex, SourceFlight.exactTime)
AtOwnTime == [exactTime |-> SourceFlight.exactTime]
FollowsOwnTime ==
  /\ summary.windowStart =
       formatMins(windowStartMins(OwnTime, selectedRef.type, mctMins, windowMins))
  /\ summary.windowEnd =
       formatMins(windowEndMins(OwnTime, selectedRef.type, mctMins, windowMins))
  /\ \A idx \in Slots :
       \A j \in 1..Len(ListOf(consolidatedData[idx], flipType(selectedRef.type))) :
         isFlightInConnectionWindow(SourceFlight, selectedRef.slotIndex,
             selectedRef.type,
             ListOf(consolidatedData[idx], flipType(selectedRef.type))[j], idx,
             flipType(selectedRef.type), mctMins, windowMins)
         = isFlightInConnectionWindow(AtOwnTime, selectedRef.slotIndex,
             selectedRef.type,
             ListOf(consolidatedData[idx], flipType(selectedRef.type))[j], idx,
             flipType(selectedRef.type), mctMins, windowMins)

\* C27: for every manual record used as focal flight the summary's window and
\* the connection test are those of the record's own current exactTime, also
\* for a record promoted from a merged block and then retimed.
C27_ConnectionsFollowCurrentTime ==
  (SourceFound /\ SourceFlight.isManual) => FollowsOwnTime

\* the same for the manual records that carry no constituent flights
C27_FollowsTimeUnlessMerged ==
  (SourceFound /\ SourceFlight.isManual /\ "mergedFlights" \notin DOMAIN SourceFlight)
    => FollowsOwnTime

\* ------------------------------------------------ categories of the summary
RECURSIVE RegionFreqSum(_, _)
RegionFreqSum(regions, k) ==
  IF k > Len(regions) THEN 0 ELSE regions[k].freq + RegionFreqSum(regions, k + 1)

\* C28: in every summary the catchment, other-Indian and international totals
\* add up to the total, for frequency, seats and passengers; every counted
\* candidate is in exactly one of the three categories; the frequencies of
\* topRegions add up to totalFreq, one entry per region.
C28_CategoriesPartition ==
  SourceFound =>
    LET s == summary
        top == s.topRegions
    IN /\ s.catchmentFreq + s.otherIndianFreq + s.internationalFreq = s.totalFreq
       /\ s.catchmentSeats + s.otherIndianSeats + s.internationalSeats
            = s.totalSeats
       /\ s.catchmentPax + s.otherIndianPax + s.internationalPax = s.totalPax
       /\ \A p \in connectingBlocks(consolidatedData, selectedRef, SourceFlight,
                                    mctMins, windowMins) :
            Cardinality({cat \in Categories :
               inCategory(cat, ListOf(consolidatedData[p[1]],
                                      flipType(selectedRef.type))[p[2]].code)}) = 1
       /\ RegionFreqSum(top, 1) = s.totalFreq
       /\ \A i, j \in 1..Len(top) :
            i < j => /\ top[i].region # top[j].region
                     /\ top[i].freq >= top[j].freq

\* the merged DXB arrivals with MCT 1.5 h and window 6 h: JED, DEL and MAA
\* connect, one port in each category and two regions
C28_Witness ==
  /\ SourceFound
  /\ LET s == summary
     IN /\ s.catchmentFreq = 2 /\ s.otherIndianFreq = 4
        /\ s.internationalFreq = 6 /\ s.totalFreq = 12
        /\ s.totalSeats = 120 /\ s.totalPax = 60
        /\ Len(s.topRegions) = 2

\* ------------------------------------ the displayed range and the window test
\* t lies in the cyclic interval that runs from the clock time from to the
\* clock time to
InCyclicRange(t, from, to) ==
  (t - getMins(from)) % DayMins <= (getMins(to) - getMins(from)) % DayMins
\* the blocks of the other direction with a constituent whose time lies in the
\* range the summary s shows
BlocksInRange(s) ==
  LET targetType == flipType(selectedRef.type)
      l(idx) == ListOf(consolidatedData[idx], targetType)
  IN {p \in UNION {{<<idx, j>> : j \in 1..Len(l(idx))} : idx \in Slots} :
        \E n \in 1..Len(flightsOf(l(p[1])[p[2]])) :
          InCyclicRange(getMinutes(p[1], flightsOf(l(p[1])[p[2]])[n].exactTime),
                        s.windowStart, s.windowEnd)}

BucketsOfEither(before, after) == DOMAIN before \cup DOMAIN after
\* the record a trash drop is about, as the chart shows it
TrashedRecords(tr) ==
  {f \in HubFlights(manualBlocks[activeDataset.id]) : f.id = tr.blockId}

\* C30: handleTrashDrop(blockId, fromSlot, type) removes the records with that
\* id from the given slot and direction of the active hub and nothing else:
\* every other slot and direction of the hub and the stores of all other hubs,
\* a synced reciprocal record included, stay as they are.
C30_DeleteIsLocal ==
  \A tr \in Trashes :
    LET before == manualBlocks[activeDataset.id]
        after == TrashResult(tr)[activeDataset.id]
    IN /\ \A d \in DatasetIds \ {activeDataset.id} :
            TrashResult(tr)[d] = manualBlocks[d]
       /\ \A b \in BucketsOfEither(before, after) : \A type \in Types :
            IF b = tr.fromSlot /\ type = tr.type
            THEN /\ \A i \in 1..Len(ListOf(SlotAt(after, b), type)) :
                      ListOf(SlotAt(after, b), type)[i].id # tr.blockId
                 /\ \A f \in {ListOf(SlotAt(before, b), type)[i] :
                                i \in 1..Len(ListOf(SlotAt(before, b), type))} :
                      f.id # tr.blockId =>
                        Count(ListOf(SlotAt(after, b), type), f)
                          = Count(ListOf(SlotAt(before, b), type), f)
                 /\ Len(ListOf(SlotAt(after, b), type))
                      <= Len(ListOf(SlotAt(before, b), type))
            ELSE ListOf(SlotAt(after, b), type) = ListOf(SlotAt(before, b), type)

\* a record with a synced reciprocal at another hub is deleted: the hub is
\* empty afterwards and the reciprocal is still at the other hub
C30_Witness ==
  \E tr \in Trashes :
    /\ HubFlights(TrashResult(tr)[activeDataset.id]) = {}
    /\ \E d \in DatasetIds \ {activeDataset.id} :
         \E i \in 1..Len(Entries(manualBlocks[d])) :
           /\ \E f \in TrashedRecords(tr) :
                ReciprocalOf(Entries(manualBlocks[d])[i], tr.type, f)
           /\ Entries(manualBlocks[d])[i].flight.originalHubTime # NoTime
           /\ Entries(TrashResult(tr)[d]) = Entries(manualBlocks[d])

====
